---- MODULE Spec2Model ----
(***************************************************************************)
(* A model of plueprint, the API Blueprint parser built on Markdown.       *)
(*                                                                         *)
(* Part I   Action.parse_from_etree: the walk over the bullet list of an   *)
(*          Action, one step per <li>, and Action.__init__.                *)
(*          Specification: Spec.                                           *)
(* Part II  APIBlueprint._parse: the walk over the headings of a document, *)
(*          one step per heading, followed by _reset_trie and              *)
(*          _apply_attributes_references, and APIBlueprint.__getitem__.    *)
(*          Specifications: SpecDoc, SpecRefs.                             *)
(*                                                                         *)
(* Python objects are identified by where they were created: identity      *)
(* (the `is` operator) is equality of these identifiers.  None is NoneStr  *)
(* for strings, NoId for references to sections.                           *)
(***************************************************************************)
EXTENDS Integers, Sequences, FiniteSets, TLC

\* ------------------------------------------------------------------ bounds
\* Bullet items of the Action's list walked in Part I.
MaxItems == 5

\* ----------------------------------------------------------------- helpers
NoneStr == "None"
NoId == <<>>

Range(s) == { s[i] : i \in 1..Len(s) }

\* list.append
Append1(s, e) == s \o <<e>>

\* An OrderedDict is a sequence of <<key, value>> pairs, in insertion order.
\* d[k] = v: an existing key keeps its position and takes the new value.
DictHas(d, k) == \E i \in 1..Len(d) : d[i][1] = k
DictGet(d, k) == d[CHOOSE i \in 1..Len(d) : d[i][1] = k][2]
DictPutAppend(d, k, v) == Append1(d, <<k, v>>)
DictPut(d, k, v) ==
    IF DictHas(d, k)
    THEN [i \in 1..Len(d) |-> IF d[i][1] = k THEN <<k, v>> ELSE d[i]]
    ELSE Append1(d, <<k, v>>)
DictValues(d) == [i \in 1..Len(d) |-> d[i][2]]
DictKeys(d) == [i \in 1..Len(d) |-> d[i][1]]

RECURSIVE Flatten(_)
\* itertools.chain.from_iterable over a sequence of sequences
Flatten(ss) == IF ss = <<>> THEN <<>> ELSE Head(ss) \o Flatten(Tail(ss))

\* ------------------------------------------------------------ Python strings
\* A str is a sequence of one-character strings; None is NoTxt.
NoTxt == <<"None">>
SP == " "
GET == <<"G", "E", "T">>
POST == <<"P", "O", "S", "T">>
HttpMethods == {GET, POST, <<"P", "U", "T">>, <<"P", "A", "T", "C", "H">>,
                <<"D", "E", "L", "E", "T", "E">>, <<"H", "E", "A", "D">>}

\* str.find(c) and str.rfind(c): a position from 1, 0 where Python gives -1.
Find(s, c) ==
    LET hits == { i \in 1..Len(s) : s[i] = c }
    IN  IF hits = {} THEN 0 ELSE CHOOSE i \in hits : \A j \in hits : i <= j
RFind(s, c) ==
    LET hits == { i \in 1..Len(s) : s[i] = c }
    IN  IF hits = {} THEN 0 ELSE CHOOSE i \in hits : \A j \in hits : i >= j

\* str.strip()
Strip(s) ==
    LET keep == { i \in 1..Len(s) : s[i] # SP }
    IN  IF keep = {} THEN <<>>
        ELSE SubSeq(s, CHOOSE i \in keep : \A j \in keep : i <= j,
                       CHOOSE i \in keep : \A j \in keep : i >= j)

\* s[from:] for a position from 1
From(s, from) == SubSeq(s, from, Len(s))

\* select_pos(s.find(c) for c in (' ', '\t')): the texts hold no tab.
SelectPos(s) == Find(s, SP)

\* str.startswith
StartsWith(s, prefix) ==
    Len(prefix) <= Len(s) /\ SubSeq(s, 1, Len(prefix)) = prefix

RECURSIVE Split(_, _)
\* str.split(c)
Split(s, c) ==
    LET at == Find(s, c)
    IN  IF at = 0 THEN <<s>>
        ELSE <<SubSeq(s, 1, at - 1)>> \o Split(From(s, at + 1), c)

\* Resource.parse_definition: [name, method, template] of a heading text.
ResourceParseDefinition(text) ==
    LET txt == Strip(text)
    IN  IF txt[Len(txt)] = "]"
        THEN LET br_pos == RFind(txt, "[")
                 part == Strip(SubSeq(txt, br_pos + 1, Len(txt) - 1))
                 sep_pos == SelectPos(part)
             IN  IF sep_pos > 0
                 THEN [name |-> Strip(SubSeq(txt, 1, br_pos - 1)),
                       method |-> SubSeq(part, 1, sep_pos - 1),
                       template |-> Strip(From(part, sep_pos))]
                 ELSE [name |-> Strip(SubSeq(txt, 1, br_pos - 1)),
                       method |-> NoTxt,
                       template |-> part]
        ELSE LET sep_pos == SelectPos(txt)
                 method == SubSeq(txt, 1, sep_pos - 1)
             IN  IF sep_pos > 0 /\ method \in HttpMethods
                 THEN [name |-> NoTxt, method |-> method,
                       template |-> Strip(From(txt, sep_pos + 1))]
                 ELSE [name |-> NoTxt, method |-> NoTxt, template |-> txt]

\* Action.parse_definition: [name, method, template] of a heading text.
ActionParseDefinition(text) ==
    LET txt == Strip(text)
    IN  IF txt[Len(txt)] = "]"
        THEN LET br_pos == RFind(txt, "[")
                 part == Strip(SubSeq(txt, br_pos + 1, Len(txt) - 1))
                 sep_pos == SelectPos(part)
             IN  IF sep_pos > 0
                 THEN [name |-> Strip(SubSeq(txt, 1, br_pos - 1)),
                       method |-> SubSeq(part, 1, sep_pos - 1),
                       template |-> Strip(From(part, sep_pos))]
                 ELSE [name |-> Strip(SubSeq(txt, 1, br_pos - 1)),
                       method |-> part,
                       template |-> NoTxt]
        ELSE [name |-> NoTxt, method |-> txt, template |-> NoTxt]

\* ApiSection.__init__: URITemplate(uri_template) if uri_template else None
UriTemplateOf(template) ==
    IF template = NoTxt \/ template = <<>> THEN NoTxt ELSE template

\* ApiSection.id
IdOf(name, method, template) ==
    IF name # NoTxt THEN name
    ELSE Strip((IF method # NoTxt THEN method \o <<SP>> ELSE <<>>)
               \o (IF template # NoTxt THEN template \o <<SP>> ELSE <<>>))

\* The heading text of a definition with the given parts (NoTxt: not given):
\* `name [METHOD template]`, `name [template]`, `METHOD template`, `template`
\* for a Resource; `name [METHOD template]`, `name [METHOD]`, `METHOD` for an
\* Action.
HeadingText(name, method, template) ==
    LET inner == (IF method # NoTxt THEN method ELSE <<>>)
                 \o (IF method # NoTxt /\ template # NoTxt THEN <<SP>> ELSE <<>>)
                 \o (IF template # NoTxt THEN template ELSE <<>>)
    IN  IF name # NoTxt THEN name \o <<SP, "[">> \o inner \o <<"]">> ELSE inner

\* ------------------------------------------------------------------- state
VARIABLES
    \* Part I: Action.parse_from_etree
    items,              \* the <li> nodes walked so far, in order
    heap,               \* the Request and Response objects, by identifier
    current_requests,   \* local current_requests: the pending Requests
    clear_requests,     \* local clear_requests
    kw_requests,        \* kwargs["requests"]
    kw_responses,       \* kwargs["responses"]
    kw_attributes,      \* kwargs["attributes"]
    apc,                \* "walk" inside the for loop, "done" after Action(...)
    act_requests,       \* Action._requests, an OrderedDict name -> Request
    act_responses,      \* Action._responses, an OrderedDefaultDict code -> list
    \* Part II: APIBlueprint._parse
    dpc,                \* "parse" in the walk over the headings, then "done"
    npos,               \* headings consumed so far
    cur_group,          \* the ResourceGroup whose window is open, or NoObj
    cur_resource,       \* the Resource whose window is open, or NoObj
    b_groups,           \* APIBlueprint._groups, an OrderedDict
    grp,                \* the ResourceGroup objects
    res,                \* the Resource objects
    act,                \* the Action objects
    b_models,           \* APIBlueprint._models
    b_attributes,       \* APIBlueprint._attributes
    b_data_structures,  \* APIBlueprint._data_structures
    trie,               \* APIBlueprint._trie
    \* Part III: APIBlueprint.merge
    m_self,             \* the receiver: overview, _data_structures, _groups
    m_other,            \* the Blueprint of the last call of merge
    m_count,            \* how many Blueprints were parsed so far
    m_errs,             \* what each call raised, "none" when it returned
    \* Part IV: the head of APIBlueprint._parse
    p_pc,               \* "start", "sections", or the exception raised
    p_root,             \* the tags of the root's children up to the first section
    p_text,             \* root[0].text
    p_metadata,         \* APIBlueprint._metadata
    p_index,            \* the index of the first section in the root
    \* Part V: the passes before the parse and the parsers of single sections
    q_fn,               \* the function called ("idle" before the call) and its stage
    q_in,               \* its argument
    q_out,              \* what it built so far, or returned
    q_stack             \* TitleLifter.run: lifo, as paths from the root

avars == <<items, heap, current_requests, clear_requests, kw_requests,
           kw_responses, kw_attributes, apc, act_requests, act_responses>>

dvars == <<dpc, npos, cur_group, cur_resource, b_groups, grp, res, act,
           b_models, b_attributes, b_data_structures, trie>>

mvars == <<m_self, m_other, m_count, m_errs>>

pvars == <<p_pc, p_root, p_text, p_metadata, p_index>>

qvars == <<q_fn, q_in, q_out, q_stack>>

vars == <<avars, dvars, mvars, pvars, qvars>>

\* ------------------------------------------------- Part I: parsing an Action
\* The section parsed from the n-th <li> is object <<n, 0>>; its deep copies
\* are <<n, 1>>, <<n, 2>>, ...  The Attributes section a payload or the Action
\* declares at the n-th <li> is <<n, -1>>.
SectionId(n) == <<n, 0>>
AttributesId(n) == <<n, -1>>

\* The first words of the bullet items, as get_section_name returns them, and
\* what the payload definitions give as names.
RequestNames == {NoneStr, "a"}
ResponseNames == {"200", "404"}

\* Response.http_code: int(self._name)
HttpCode(name) == CASE name = "200" -> 200
                    [] name = "404" -> 404

\* The Response is appended again instead of a copy of it.
NoDeepCopy(id) == id

\* copy.deepcopy(section): a new object with the fields of the old one.
DeepCopyId(id) == <<id[1], id[2] + 1>>

RECURSIVE LinkResponse(_, _, _, _, _)
\* The loop `for i, cr in enumerate(current_requests)` on a Response: returns
\* the heap, kwargs["responses"] and the local `section` after the loop.
LinkResponse(h, resps, section, crs, i) ==
    IF i > Len(crs)
    THEN [heap |-> h, responses |-> resps, section |-> section]
    ELSE LET cr == crs[i]
             h1 == [h EXCEPT ![section].request = cr,
                             ![cr].responses = Append1(@, section)]
         IN  IF i < Len(crs)
             THEN LET copy == DeepCopyId(section)
                      h2 == IF copy \in DOMAIN h1 THEN h1
                            ELSE h1 @@ (copy :> h1[section])
                  IN  LinkResponse(h2, Append1(resps, section), copy, crs, i + 1)
             ELSE LinkResponse(h1, resps, section, crs, i + 1)

NewPayload(kind, name, attributes) ==
    [kind |-> kind, name |-> name, attributes |-> attributes,
     responses |-> <<>>, request |-> NoId]

\* A skipped <li> that also forgets the pending Requests.
ParseUnknownClears ==
    /\ UNCHANGED <<dvars, mvars, pvars, qvars>>
    /\ apc = "walk"
    /\ Len(items) < MaxItems
    /\ items' = Append1(items, [kind |-> "Unknown", name |-> NoneStr, own |-> FALSE])
    /\ current_requests' = <<>>
    /\ UNCHANGED <<heap, clear_requests, kw_requests,
                   kw_responses, kw_attributes, apc, act_requests, act_responses>>

\* A <li> whose first word names no registered section (KeyError), or whose
\* parser raises ValueError: both handlers only write a warning.
ParseUnknown ==
    /\ UNCHANGED <<dvars, mvars, pvars, qvars>>
    /\ apc = "walk"
    /\ Len(items) < MaxItems
    /\ items' = Append1(items, [kind |-> "Unknown", name |-> NoneStr, own |-> FALSE])
    /\ UNCHANGED <<heap, current_requests, clear_requests, kw_requests,
                   kw_responses, kw_attributes, apc, act_requests, act_responses>>

\* A Request <li>.
ParseRequest(name, own) ==
    /\ UNCHANGED <<dvars, mvars, pvars, qvars>>
    /\ apc = "walk"
    /\ Len(items) < MaxItems
    /\ LET n == Len(items) + 1
           section == SectionId(n)
           attrs == IF own THEN AttributesId(n) ELSE NoId
       IN  /\ items' = Append1(items, [kind |-> "Request", name |-> name, own |-> own])
           /\ heap' = heap @@ (section :> NewPayload("Request", name, attrs))
           /\ current_requests' =
                 Append1(IF clear_requests THEN <<>> ELSE current_requests, section)
           /\ kw_requests' = Append1(kw_requests, section)
    /\ UNCHANGED <<clear_requests, kw_responses, kw_attributes, apc,
                   act_requests, act_responses>>

\* A Response <li>.
ParseResponse(name) ==
    /\ UNCHANGED <<dvars, mvars, pvars, qvars>>
    /\ apc = "walk"
    /\ Len(items) < MaxItems
    /\ LET n == Len(items) + 1
           section == SectionId(n)
           h0 == heap @@ (section :> NewPayload("Response", name, NoId))
           out == LinkResponse(h0, kw_responses, section, current_requests, 1)
       IN  /\ items' = Append1(items, [kind |-> "Response", name |-> name, own |-> FALSE])
           /\ heap' = out.heap
           /\ kw_responses' = Append1(out.responses, out.section)
    /\ clear_requests' = TRUE
    /\ UNCHANGED <<current_requests, kw_requests, kw_attributes, apc,
                   act_requests, act_responses>>

\* An Attributes <li> of the Action itself: kwargs["attributes"] = section.
ParseAttributes ==
    /\ UNCHANGED <<dvars, mvars, pvars, qvars>>
    /\ apc = "walk"
    /\ Len(items) < MaxItems
    /\ items' = Append1(items, [kind |-> "Attributes", name |-> NoneStr, own |-> FALSE])
    /\ kw_attributes' = AttributesId(Len(items) + 1)
    /\ UNCHANGED <<heap, current_requests, clear_requests, kw_requests,
                   kw_responses, apc, act_requests, act_responses>>

\* The loop after the walk: a Request without attributes takes the Action's.
InheritAttributes(h, reqs, attributes) ==
    [id \in DOMAIN h |->
        IF id \in Range(reqs) /\ h[id].attributes = NoId
        THEN [h[id] EXCEPT !.attributes = attributes]
        ELSE h[id]]

RECURSIVE NameRequests(_, _, _, _, _)
\* Action.__init__, first loop: returns the heap (a nameless Request is named
\* "#<index>") and the OrderedDict _requests.
NameRequests(h, reqs, i, index, dict) ==
    IF i > Len(reqs) THEN [heap |-> h, requests |-> dict]
    ELSE LET item == reqs[i]
             unnamed == h[item].name = NoneStr
             name == IF unnamed THEN "#" \o ToString(index) ELSE h[item].name
         IN  NameRequests([h EXCEPT ![item].name = name], reqs, i + 1,
                          IF unnamed THEN index + 1 ELSE index,
                          DictPut(dict, name, item))

RECURSIVE IndexResponses(_, _, _, _)
\* Action.__init__, second loop: _responses[code].append(item)
IndexResponses(h, resps, i, dict) ==
    IF i > Len(resps) THEN dict
    ELSE LET item == resps[i]
             code == HttpCode(h[item].name)
             old == IF DictHas(dict, code) THEN DictGet(dict, code) ELSE <<>>
         IN  IndexResponses(h, resps, i + 1, DictPut(dict, code, Append1(old, item)))

RECURSIVE ResponsesByCode(_, _, _, _)
ResponsesByCode(h, rs, i, dict) ==
    IF i > Len(rs) THEN dict
    ELSE ResponsesByCode(h, rs, i + 1, DictPut(dict, HttpCode(h[rs[i]].name), rs[i]))

\* Request.responses: {r.http_code: r for r in self._responses}
RequestResponses(h, q) == ResponsesByCode(h, h[q].responses, 1, <<>>)

\* The end of the list: the inheritance loop and Action(parent, *adef, **kwargs).
FinishActionBody ==
    /\ apc = "walk"
    /\ LET h1 == InheritAttributes(heap, kw_requests, kw_attributes)
           named == NameRequests(h1, kw_requests, 1, 0, <<>>)
       IN  /\ heap' = named.heap
           /\ act_requests' = named.requests
           /\ act_responses' = IndexResponses(named.heap, kw_responses, 1, <<>>)
    /\ apc' = "done"
    /\ UNCHANGED <<items, current_requests, clear_requests, kw_requests,
                   kw_responses, kw_attributes>>

FinishAction ==
    /\ UNCHANGED <<dvars, mvars, pvars, qvars>>
    /\ FinishActionBody

\* The Action itself, as the parent of a section
ActionId == <<"Action">>

\* The setter of property_with_parent: `if value.parent is None:
\* value._parent = self`; returns the parent the value has afterwards.
PropertyWithParent(parent, self) == IF parent = NoId THEN self ELSE parent

RECURSIVE InheritedParent(_, _, _, _)
\* The parent of kwargs["attributes"] after the inheritance loop:
\* `req._attributes = kwargs["attributes"]` goes through the setter.
InheritedParent(h, reqs, i, parent) ==
    IF i > Len(reqs) THEN parent
    ELSE InheritedParent(h, reqs, i + 1,
             IF h[reqs[i]].attributes = NoId
             THEN PropertyWithParent(parent, reqs[i]) ELSE parent)

\* The parents after Action(...): every section is parsed with the parent
\* None; a payload's own Attributes takes the payload in the payload's
\* __init__; the Action's Attributes goes through the inheritance loop and
\* then through `self._attributes = attributes` of ApiSection.__init__; the
\* last loop of Action.__init__ sets the parent of each Request and Response.
SectionParents(its, h, reqs, resps, attributes) ==
    LET own == { AttributesId(n) : n \in { k \in 1..Len(its) : its[k].own } }
        payloads == Range(reqs) \cup Range(resps)
        mine == IF attributes = NoId THEN {} ELSE {attributes}
    IN  [id \in own \cup payloads \cup mine |->
            IF id \in payloads THEN ActionId
            ELSE IF id \in own THEN PropertyWithParent(NoId, SectionId(id[1]))
            ELSE PropertyWithParent(InheritedParent(h, reqs, 1, NoId), ActionId)]

\* FinishAction, with the parents the sections end with in q_out
FinishActionParents ==
    /\ UNCHANGED <<dvars, mvars, pvars>>
    /\ FinishActionBody
    /\ q_fn' = "Action.parse_from_etree"
    /\ q_out' = SectionParents(items, heap, kw_requests, kw_responses, kw_attributes)
    /\ UNCHANGED <<q_in, q_stack>>

\* The locals of the walk as one value: before the first <li> ...
EmptyWalk ==
    [heap |-> <<>>, current_requests |-> <<>>, clear_requests |-> FALSE,
     kw_requests |-> <<>>, kw_responses |-> <<>>, kw_attributes |-> NoId]

\* ... and after the body of the loop ran for the n-th <li>
ParseItem(st, item, n) ==
    LET section == SectionId(n)
    IN  CASE item.kind = "Request" ->
               [st EXCEPT
                  !.heap = @ @@ (section :> NewPayload("Request", item.name,
                                     IF item.own THEN AttributesId(n) ELSE NoId)),
                  !.current_requests =
                      Append1(IF st.clear_requests THEN <<>> ELSE @, section),
                  !.kw_requests = Append1(@, section)]
          [] item.kind = "Response" ->
               LET h0 == st.heap @@ (section :> NewPayload("Response", item.name, NoId))
                   out == LinkResponse(h0, st.kw_responses, section,
                                       st.current_requests, 1)
               IN  [st EXCEPT !.heap = out.heap,
                              !.kw_responses = Append1(out.responses, out.section),
                              !.clear_requests = TRUE]
          [] item.kind = "Attributes" ->
               [st EXCEPT !.kw_attributes = AttributesId(n)]
          [] OTHER -> st

RECURSIVE ParseItems(_, _, _)
\* The loop `for li in sequence[index]` over a whole list
ParseItems(st, lis, n) ==
    IF n > Len(lis) THEN st
    ELSE ParseItems(ParseItem(st, lis[n], n), lis, n + 1)

\* What follows the loop: the Action's requests and responses, and the heap
FinishedWalk(st) ==
    LET h1 == InheritAttributes(st.heap, st.kw_requests, st.kw_attributes)
        named == NameRequests(h1, st.kw_requests, 1, 0, <<>>)
    IN  [heap |-> named.heap,
         requests |-> named.requests,
         responses |-> IndexResponses(named.heap, st.kw_responses, 1, <<>>)]

InitAction ==
    /\ items = <<>>
    /\ heap = <<>>
    /\ current_requests = <<>>
    /\ clear_requests = FALSE
    /\ kw_requests = <<>>
    /\ kw_responses = <<>>
    /\ kw_attributes = NoId
    /\ apc = "walk"
    /\ act_requests = <<>>
    /\ act_responses = <<>>

\* -------------------------------------------- Part II: parsing a document
\* A section created while the n-th heading is parsed is identified by n: the
\* ResourceGroup, the Resource, or the Action of that heading. The implicit
\* group and an implicit action take the number of the Resource heading that
\* made them.
NoObj == 0

\* An Attributes object: who declared it, and its _reference.
NoAttrs == [owner |-> "none", pos |-> 0, idx |-> 0, reference |-> NoTxt]
NewAttrs(owner, pos, idx, reference) ==
    [owner |-> owner, pos |-> pos, idx |-> idx, reference |-> reference]

\* Attributes.parse_from_etree on the <li> of the given form: none, a list of
\* children ("inline"), or `Attributes (REF)` ("ref").
ParseAttrs(form, owner, pos, idx) ==
    CASE form.kind = "none" -> NoAttrs
      [] form.kind = "inline" -> NewAttrs(owner, pos, idx, NoTxt)
      [] form.kind = "ref" -> NewAttrs(owner, pos, idx, form.reference)

\* A Model object: its body (0: no Model) and its attributes.
NoModel == [pos |-> 0, body |-> 0, attributes |-> NoAttrs]
NewModel(pos, body) ==
    IF body = 0 THEN NoModel ELSE [pos |-> pos, body |-> body, attributes |-> NoAttrs]

\* A DataStructure object of the `Data Structures` window: its _reference,
\* and its value: "none", "string" (`D: text`) or "children" (a member list).
NewDataStructure(pos, idx, value, reference) ==
    [owner |-> "ds", pos |-> pos, idx |-> idx, reference |-> reference, value |-> value]

\* DataStructure.parse_from_etree on a heading of the given form: a bare
\* `[REF][]` paragraph makes it a reference.
ParseDataStructure(entry, pos, idx) ==
    NewDataStructure(pos, idx, entry.value, entry.reference)

\* RRPredefinedPayloadSection.parse_from_etree for a Request or Response <li>:
\* its own Attributes, or a reference `[REF][]` when it has no section at all.
ParsePayload(input, pos, idx) ==
    [kind |-> input.kind,
     own |-> input.own,
     attributes |-> IF input.own THEN NewAttrs("payload", pos, idx, NoTxt) ELSE NoAttrs,
     reference |-> IF input.own THEN NoTxt ELSE input.reference,
     body |-> 0,
     copied |-> FALSE]

\* RRPredefinedPayloadSection._copy_from_payload
CopyFromPayload(rr, payload) ==
    [rr EXCEPT !.attributes = payload.attributes,
               !.body = payload.body,
               !.copied = TRUE]

\* An Action that drops the payloads of its list.
NoPayloads(inputs, attributes, pos) == <<>>

\* Action.parse_from_etree: the payloads of the list, a Request without
\* attributes taking kwargs["attributes"].
ParsePayloads(inputs, attributes, pos) ==
    [i \in 1..Len(inputs) |->
        LET rr == ParsePayload(inputs[i], pos, i)
        IN  IF rr.kind = "Request" /\ rr.attributes = NoAttrs
            THEN [rr EXCEPT !.attributes = attributes]
            ELSE rr]

\* _parse_resource, lines 339-348: copy the Model a payload refers to, when
\* the reference is in _models.
ResolveModels(payloads, models) ==
    [i \in 1..Len(payloads) |->
        IF payloads[i].reference # NoTxt /\ DictHas(models, payloads[i].reference)
        THEN CopyFromPayload(payloads[i], DictGet(models, payloads[i].reference))
        ELSE payloads[i]]

\* str.find(sub) for a substring
FindStr(s, sub) ==
    LET hits == { i \in 1..(Len(s) - Len(sub) + 1) : SubSeq(s, i, i + Len(sub) - 1) = sub }
    IN  IF hits = {} THEN 0 ELSE CHOOSE i \in hits : \A j \in hits : i <= j

GroupWord == <<"G", "r", "o", "u", "p">>
DataStructuresText ==
    <<"D", "a", "t", "a", " ", "S", "t", "r", "u", "c", "t", "u", "r", "e", "s">>

\* _parse_resource_group: the name after the keyword
GroupNameOf(text) == Strip(From(text, FindStr(text, GroupWord) + Len(GroupWord)))

\* _is_group
IsGroup(text) == StartsWith(text, GroupWord)

\* _is_data_structures
IsDataStructures(text) == text = DataStructuresText

\* iteration: APIBlueprint.__iter__, .resources, .actions
Groups == DictValues(b_groups)
ResourcesIn(groups, g) == Flatten([i \in 1..Len(groups) |-> DictValues(g[groups[i]].resources)])
Resources == ResourcesIn(Groups, grp)
ActionsIn(resources, r) == Flatten([i \in 1..Len(resources) |-> DictValues(r[resources[i]].actions)])
Actions == ActionsIn(Resources, res)

\* Bound: headings of the document walked in Part II.
MaxHeadings == 4

\* The window of the open Resource was declared to hold Action headings and
\* none was walked yet: the next heading is an Action's.
NeedAction == cur_resource # NoObj /\ cur_resource = npos

\* _parse is walking the top-level windows; "more" after a window that is
\* known not to be the last one, until the next window opens.
Parsing == dpc \in {"parse", "more"}

\* A "Group ..." heading: _parse_resource_group up to its first Resource.
\* self._groups[name] = ResourceGroup(self, name, desc)
ParseGroupHeading(text) ==
    /\ UNCHANGED <<avars, mvars, pvars, qvars>>
    /\ Parsing
    /\ npos < MaxHeadings
    /\ ~NeedAction
    /\ IsGroup(text)
    /\ LET pos == npos + 1
           name == GroupNameOf(text)
       IN  /\ npos' = pos
           /\ b_groups' = DictPut(b_groups, name, pos)
           /\ grp' = grp @@ (pos :> [name |-> name, pos |-> pos, resources |-> <<>>])
           /\ cur_group' = pos
    /\ cur_resource' = NoObj
    /\ dpc' = "parse"
    /\ UNCHANGED <<res, act, b_models, b_attributes, b_data_structures, trie>>

\* _parse_resource for one Resource heading: `top` for a top-level window
\* (group None), else a window of the open group; `closed` when no Action
\* heading follows in the window. sections: has_ul, the Attributes form, the
\* Model body, and the Request/Response items of the <ul>.
ParseResourceHeading(top, given, sections, closed) ==
    /\ UNCHANGED <<avars, mvars, pvars, qvars>>
    /\ Parsing
    /\ npos + (IF closed THEN 1 ELSE 2) <= MaxHeadings
    /\ ~NeedAction
    /\ top \/ cur_group # NoObj
    /\ LET pos == npos + 1
           text == HeadingText(given.name, given.method, given.template)
           \* group = self._groups[None], created when missing
           make_group == top /\ ~DictHas(b_groups, NoTxt)
           gid == IF top
                  THEN (IF make_group THEN pos ELSE DictGet(b_groups, NoTxt))
                  ELSE cur_group
           groups1 == IF make_group THEN DictPutAppend(b_groups, NoTxt, pos) ELSE b_groups
           grp1 == IF make_group
                   THEN grp @@ (pos :> [name |-> NoTxt, pos |-> pos, resources |-> <<>>])
                   ELSE grp
           rdef == ResourceParseDefinition(text)
           skipped == ~sections.has_ul /\ closed
           action_instead_of_resource == sections.payloads # <<>>
           attributes == IF action_instead_of_resource THEN NoAttrs
                         ELSE ParseAttrs(sections.attributes, "resource", pos, 0)
           model == IF action_instead_of_resource THEN NoModel
                    ELSE NewModel(pos, sections.model)
           r == [name |-> rdef.name, method |-> rdef.method,
                 template |-> UriTemplateOf(rdef.template),
                 attributes |-> attributes, model |-> model,
                 pos |-> pos, group |-> gid, actions |-> <<>>, given |-> given]
           rid == IdOf(r.name, r.method, r.template)
           implicit == closed /\ action_instead_of_resource
           \* Action.parse_from_etree(r, sequence, 0), then name, method and
           \* template are overwritten with the Resource's
           aattrs == ParseAttrs(sections.attributes, "action", pos, 0)
           a == [name |-> r.name, method |-> r.method, template |-> r.template,
                 attributes |-> aattrs, pos |-> pos, resource |-> pos,
                 payloads |-> ParsePayloads(sections.payloads, aattrs, pos),
                 given |-> given, implicit |-> TRUE]
           aid == IdOf(a.name, a.method, a.template)
           r1 == IF implicit THEN [r EXCEPT !.actions = DictPut(@, aid, pos)] ELSE r
       IN  /\ npos' = pos
           /\ b_groups' = groups1
           /\ cur_group' = IF top THEN NoObj ELSE cur_group
           /\ IF skipped
              THEN /\ grp' = grp1
                   /\ cur_resource' = NoObj
                   /\ UNCHANGED <<res, act, b_models, b_attributes>>
              ELSE /\ grp' = [grp1 EXCEPT ![gid].resources = DictPut(@, rid, pos)]
                   /\ res' = res @@ (pos :> r1)
                   /\ b_models' = IF model # NoModel /\ r.name # NoTxt
                                  THEN DictPut(b_models, r.name, model)
                                  ELSE b_models
                   /\ b_attributes' = IF attributes # NoAttrs /\ r.name # NoTxt
                                      THEN DictPut(b_attributes, r.name, attributes)
                                      ELSE b_attributes
                   /\ act' = IF implicit THEN act @@ (pos :> a) ELSE act
                   /\ cur_resource' = IF closed THEN NoObj ELSE pos
           \* a `Data Structures` window gets here only when another
           \* top-level window follows it
           /\ dpc' = IF top /\ IsDataStructures(text) THEN "more" ELSE "parse"
    /\ UNCHANGED <<b_data_structures, trie>>

\* The Action keeps what its own definition gave.
NoInheritTemplate(template, r) == template

\* The inheritance after Action.parse_from_etree in _parse_resource
InheritTemplate(template, r) == IF template = NoTxt THEN r.template ELSE template
InheritMethod(method, r) == IF method = NoTxt THEN r.method ELSE method

\* One pass of the while loop of _parse_resource: an Action heading of the
\* open Resource, with its <ul>.
ParseActionHeading(given, body) ==
    /\ UNCHANGED <<avars, mvars, pvars, qvars>>
    /\ Parsing
    /\ npos < MaxHeadings
    /\ cur_resource # NoObj
    /\ LET pos == npos + 1
           r == res[cur_resource]
           adef == ActionParseDefinition(
                       HeadingText(given.name, given.method, given.template))
           attributes == ParseAttrs(body.attributes, "action", pos, 0)
           payloads == ParsePayloads(body.payloads, attributes, pos)
           a == [name |-> adef.name,
                 method |-> InheritMethod(adef.method, r),
                 template |-> InheritTemplate(UriTemplateOf(adef.template), r),
                 attributes |-> attributes, pos |-> pos, resource |-> cur_resource,
                 payloads |-> ResolveModels(payloads, b_models),
                 given |-> given, implicit |-> FALSE]
           aid == IdOf(a.name, a.method, a.template)
       IN  /\ npos' = pos
           /\ act' = act @@ (pos :> a)
           /\ res' = [res EXCEPT ![cur_resource].actions = DictPut(@, aid, pos)]
    /\ UNCHANGED <<dpc, cur_group, cur_resource, b_groups, grp, b_models,
                   b_attributes, b_data_structures, trie>>

\* URITemplate.expand(values): a variable "{x}" takes its value, or nothing
\* when values has none.
Expand(template, values) ==
    Flatten([i \in 1..Len(template) |->
                IF template[i] = "{x}"
                THEN (IF DictHas(values, "x") THEN DictGet(values, "x") ELSE <<>>)
                ELSE <<template[i]>>])

\* Action.uri; the documents declare no Parameters, so values stays empty.
Uri(a) == Expand(a.template, <<>>)

RECURSIVE PathsOf(_, _)
\* The keys _reset_trie makes of the segments of a URI: path += "/" + sub
PathsOf(path, subs) ==
    IF subs = <<>> THEN <<>>
    ELSE IF Head(subs) = <<>> THEN PathsOf(path, Tail(subs))
    ELSE LET next == path \o <<"/">> \o Head(subs)
         IN  <<next>> \o PathsOf(next, Tail(subs))

\* An index without the root key.
NoRootKeys(cu) == PathsOf(<<>>, Split(cu, "/"))

\* The keys under which _reset_trie puts an action of the given URI
KeysOf(cu) == <<<<"/">>>> \o PathsOf(<<>>, Split(cu, "/"))

\* paths[path][method].append(a): defaultdicts, in insertion order
PathsAppend(paths, path, method, a) ==
    LET buckets == IF DictHas(paths, path) THEN DictGet(paths, path) ELSE <<>>
        old == IF DictHas(buckets, method) THEN DictGet(buckets, method) ELSE <<>>
    IN  DictPut(paths, path, DictPut(buckets, method, Append1(old, a)))

RECURSIVE AppendAll(_, _, _, _)
AppendAll(paths, keys, method, a) ==
    IF keys = <<>> THEN paths
    ELSE AppendAll(PathsAppend(paths, Head(keys), method, a), Tail(keys), method, a)

RECURSIVE ResetTrie(_, _, _)
\* _reset_trie: the loop over self.actions
ResetTrie(paths, actions, a) ==
    IF actions = <<>> THEN paths
    ELSE LET this == a[Head(actions)]
         IN  ResetTrie(AppendAll(paths, KeysOf(Uri(this)), this.method, Head(actions)),
                       Tail(actions), a)

\* dict.get(key), None as the given default
AttrsGet(d, key, default) == IF DictHas(d, key) THEN DictGet(d, key) ELSE default

\* _apply_attributes_references, the loop over self._data_structures: a
\* DataStructure that is a reference becomes self._attributes.get(ref).
ResolvedDataStructures ==
    [i \in 1..Len(b_data_structures) |->
        LET attr == b_data_structures[i][2]
        IN  IF attr # NoAttrs /\ attr.reference # NoTxt
            THEN <<b_data_structures[i][1], AttrsGet(b_attributes, attr.reference, NoAttrs)>>
            ELSE b_data_structures[i]]

\* _apply_attributes_references, the Resource's own attributes
ResolvedResourceAttrs(r) ==
    IF r.attributes # NoAttrs /\ r.attributes.reference # NoTxt
    THEN AttrsGet(b_attributes, r.attributes.reference,
                  AttrsGet(ResolvedDataStructures, r.attributes.reference, NoAttrs))
    ELSE r.attributes

\* The setter of r._attributes asserts isinstance(value, Attributes): a
\* DataStructure is an Attribute.
ResourceError(r) ==
    IF ResolvedResourceAttrs(r).owner = "ds" THEN "AssertionError" ELSE "none"

\* _apply_attributes_references, the loop `for a in r`
ResolvedActionAttrs(a, r) ==
    IF a.attributes = r.attributes
    THEN ResolvedResourceAttrs(r)
    ELSE IF a.attributes # NoAttrs /\ a.attributes.reference # NoTxt
    THEN LET ref == a.attributes.reference
             aval == AttrsGet(b_attributes, ref, NoAttrs)
             dsval == AttrsGet(ResolvedDataStructures, ref, NoAttrs)
         IN  IF aval # NoAttrs THEN aval
             ELSE IF dsval # NoAttrs
             THEN NewAttrs("resolved", a.pos, 0, NoTxt)
             ELSE a.attributes
    ELSE a.attributes

\* Attributes(a, dsval.value): an Attributes object has no value, the value
\* None is not iterable, the characters of a string are no Attribute.
ActionError(a, r) ==
    IF a.attributes # r.attributes /\ a.attributes # NoAttrs
       /\ a.attributes.reference # NoTxt
       /\ AttrsGet(b_attributes, a.attributes.reference, NoAttrs) = NoAttrs
    THEN LET dsval == AttrsGet(ResolvedDataStructures, a.attributes.reference, NoAttrs)
         IN  IF dsval = NoAttrs THEN "none"
             ELSE IF dsval.owner # "ds" THEN "AttributeError"
             ELSE CASE dsval.value = "none" -> "TypeError"
                    [] dsval.value = "string" -> "AssertionError"
                    [] dsval.value = "children" -> "none"
    ELSE "none"

\* The exceptions of the pass in the order it meets them: each Resource, then
\* its Actions.
PassErrors ==
    Flatten([i \in 1..Len(Resources) |->
        LET r == res[Resources[i]]
            actions == DictValues(r.actions)
        IN  <<ResourceError(r)>>
            \o [j \in 1..Len(actions) |-> ActionError(act[actions[j]], r)]])

\* The exception that ends the pass, "none" when it completes.
PassError ==
    LET hits == { i \in 1..Len(PassErrors) : PassErrors[i] # "none" }
    IN  IF hits = {} THEN "none"
        ELSE PassErrors[CHOOSE i \in hits : \A j \in hits : i <= j]

\* The end of _parse: _reset_trie(), then _apply_attributes_references() over
\* the resources and actions the Blueprint yields. An Action without
\* uri_template makes a.uri raise; dpc ends as "done" or as the exception
\* that escapes.
Finish ==
    /\ UNCHANGED <<avars, mvars, pvars, qvars>>
    /\ dpc \in {"parse", "last"}
    /\ npos >= 1
    /\ ~NeedAction
    /\ IF \E i \in 1..Len(Actions) : act[Actions[i]].template = NoTxt
       THEN /\ dpc' = "AttributeError"
            /\ UNCHANGED <<res, act, trie, b_data_structures>>
       ELSE IF PassError # "none"
       THEN /\ dpc' = PassError
            /\ trie' = ResetTrie(<<>>, Actions, act)
            /\ UNCHANGED <<res, act, b_data_structures>>
       ELSE /\ dpc' = "done"
            /\ trie' = ResetTrie(<<>>, Actions, act)
            /\ b_data_structures' = ResolvedDataStructures
            /\ res' = [id \in DOMAIN res |->
                         IF id \in Range(Resources)
                         THEN [res[id] EXCEPT !.attributes = ResolvedResourceAttrs(res[id])]
                         ELSE res[id]]
            /\ act' = [id \in DOMAIN act |->
                         IF id \in Range(Actions)
                         THEN [act[id] EXCEPT
                                 !.attributes =
                                     ResolvedActionAttrs(act[id], res[act[id].resource])]
                         ELSE act[id]]
    /\ UNCHANGED <<npos, cur_group, cur_resource, b_groups, grp, b_models, b_attributes>>

\* _parse_data_structure for the last top-level window, when its heading is
\* `Data Structures`: every heading inside is stored under its name.
RECURSIVE StoreDataStructures(_, _, _, _)
StoreDataStructures(d, entries, pos, idx) ==
    IF entries = <<>> THEN d
    ELSE StoreDataStructures(
             DictPut(d, Head(entries).name, ParseDataStructure(Head(entries), pos, idx)),
             Tail(entries), pos, idx + 1)

ParseDataStructures(entries) ==
    /\ UNCHANGED <<avars, mvars, pvars, qvars>>
    /\ Parsing
    /\ npos + 1 + Len(entries) <= MaxHeadings
    /\ ~NeedAction
    /\ npos' = npos + 1 + Len(entries)
    /\ b_data_structures' = StoreDataStructures(b_data_structures, entries, npos + 1, 1)
    /\ dpc' = "last"
    /\ cur_group' = NoObj
    /\ cur_resource' = NoObj
    /\ UNCHANGED <<b_groups, grp, res, act, b_models, b_attributes, trie>>

\* str.startswith on keys: SortedStringTrie.longest_prefix_value(item), the
\* value of the longest key that is a prefix of item
PrefixKeys(t, item) == { i \in 1..Len(t) : StartsWith(item, t[i][1]) }

\* The value of the shortest key that is a prefix of item.
ShortestPrefixValue(t, item) ==
    LET hits == PrefixKeys(t, item)
        best == CHOOSE i \in hits : \A j \in hits : Len(t[i][1]) <= Len(t[j][1])
    IN  t[best][2]

LongestPrefixValue(t, item) ==
    LET hits == PrefixKeys(t, item)
        best == CHOOSE i \in hits : \A j \in hits : Len(t[i][1]) >= Len(t[j][1])
    IN  t[best][2]

\* APIBlueprint.__getitem__ for a key that starts with "/": [ok, value], ok
\* FALSE for a KeyError.
GetItem(key) ==
    LET cpos == Find(key, ":")
        method == IF cpos > 0 THEN From(key, cpos + 1) ELSE NoTxt
        item0 == IF cpos > 0 THEN SubSeq(key, 1, cpos - 1) ELSE key
        item == IF item0[Len(item0)] = "/" /\ Len(item0) > 1
                THEN SubSeq(item0, 1, Len(item0) - 1) ELSE item0
    IN  IF PrefixKeys(trie, item) = {}
        THEN [ok |-> FALSE, value |-> <<>>]
        ELSE LET values == LongestPrefixValue(trie, item)
             IN  [ok |-> TRUE,
                  value |-> IF method = NoTxt THEN Flatten(DictValues(values))
                            ELSE IF DictHas(values, method) THEN DictGet(values, method)
                            ELSE <<>>]

InitDoc ==
    /\ dpc = "parse"
    /\ npos = 0
    /\ cur_group = NoObj
    /\ cur_resource = NoObj
    /\ b_groups = <<>>
    /\ grp = <<>>
    /\ res = <<>>
    /\ act = <<>>
    /\ b_models = <<>>
    /\ b_attributes = <<>>
    /\ b_data_structures = <<>>
    /\ trie = <<>>

\* ------------------------------------------------- Part III: merge(other)
\* A Blueprint here is what merge looks at: whether it has an overview, its
\* _data_structures (name -> object) and its _groups (name -> resources by id
\* -> actions by id). An object is known by the Blueprint it was parsed in
\* (origin) and by being a deepcopy or not; an Action also by whether one of
\* its Requests has linked Responses.
MaxMerges == 2

MergeObject(origin) == [origin |-> origin, copy |-> FALSE]
MergeAction(origin, linked) == [origin |-> origin, copy |-> FALSE, linked |-> linked]
EmptyBlueprint == [overview |-> FALSE, ds |-> <<>>, groups |-> <<>>]

\* The Blueprint of a document with one group, one Resource and one Action.
ParsedBlueprint(structure, flavor, origin) ==
    [overview |-> flavor # "bare",
     ds |-> IF flavor = "ds" THEN <<<<"D", MergeObject(origin)>>>> ELSE <<>>,
     groups |-> << <<structure[1],
                     << <<structure[2],
                          << <<structure[3],
                               MergeAction(origin, flavor = "linked")>> >> >> >> >> >>]

\* A merge that never finds a name on both sides.
NoCollision(mine, theirs) == FALSE

\* set(self._data_structures).intersection(other._data_structures)
DataStructuresCollide(mine, theirs) ==
    Range(DictKeys(mine)) \cap Range(DictKeys(theirs)) # {}

\* deepcopy of the objects of a dict
DeepCopyObjects(d) == [i \in 1..Len(d) |-> <<d[i][1], [d[i][2] EXCEPT !.copy = TRUE]>>]
DeepCopyResources(resources) ==
    [i \in 1..Len(resources) |-> <<resources[i][1], DeepCopyObjects(resources[i][2])>>]

RECURSIVE DictUpdate(_, _)
\* dict.update
DictUpdate(d, other) ==
    IF other = <<>> THEN d
    ELSE DictUpdate(DictPut(d, Head(other)[1], Head(other)[2]), Tail(other))

\* The loop `for action in resource`: an Action of the same id raises
\* NotImplementedError; for a new one `miner[action.id] = deepcopy(action)`
\* raises TypeError, a Resource having no __setitem__ (when deepcopy itself
\* did not raise it).
MergeActions(mine, theirs) ==
    IF theirs = <<>> THEN "none"
    ELSE IF DictHas(mine, Head(theirs)[1]) THEN "NotImplementedError"
    ELSE "TypeError"

RECURSIVE MergeResources(_, _, _)
\* The loop `for resource in group` into the receiver's group: [value, err].
\* deepcopy of a section that holds an Action rebuilds an OrderedDefaultDict
\* through OrderedDict.__reduce__, which either raises TypeError or returns a
\* copy, as the interpreter's OrderedDict goes (`copies`).
MergeResources(mine, theirs, copies) ==
    IF theirs = <<>> THEN [value |-> mine, err |-> "none"]
    ELSE LET rid == Head(theirs)[1]
             actions == Head(theirs)[2]
         IN  IF ~DictHas(mine, rid)
             THEN IF copies \/ actions = <<>>
                  THEN MergeResources(DictPut(mine, rid, DeepCopyObjects(actions)),
                                      Tail(theirs), copies)
                  ELSE [value |-> mine, err |-> "TypeError"]
             ELSE LET err == MergeActions(DictGet(mine, rid), actions)
                  IN  IF err # "none" THEN [value |-> mine, err |-> err]
                      ELSE MergeResources(mine, Tail(theirs), copies)

\* The Actions of a group in the order _fix_parents visits them
GroupActions(resources) ==
    Flatten([i \in 1..Len(resources) |->
        [j \in 1..Len(resources[i][2]) |-> <<i, j>>]])

\* mineg._fix_parents(self): Request._fix_parents empties the Request's
\* linked Responses and adds self.parent.responses[code], a list of Responses:
\* _add_response asserts it is a Response. In a deepcopy the Action's
\* _responses lost its default_factory, and the lookup raises TypeError.
FixParents(resources) ==
    LET at == GroupActions(resources)
        hits == { k \in 1..Len(at) : resources[at[k][1]][2][at[k][2]][2].linked }
    IN  IF hits = {} THEN [value |-> resources, err |-> "none"]
        ELSE LET k == CHOOSE h \in hits : \A h2 \in hits : h <= h2
                 i == at[k][1]
                 j == at[k][2]
             IN  [value |-> [resources EXCEPT ![i][2][j][2].linked = FALSE],
                  err |-> IF resources[i][2][j][2].copy
                          THEN "TypeError" ELSE "AssertionError"]

RECURSIVE MergeGroups(_, _, _)
\* The loop `for group in other`: [bp, err]
MergeGroups(st, groups, copies) ==
    IF groups = <<>> \/ st.err # "none" THEN st
    ELSE LET name == Head(groups)[1]
             theirs == Head(groups)[2]
             has == DictHas(st.bp.groups, name)
             merged == IF has
                       THEN MergeResources(DictGet(st.bp.groups, name), theirs, copies)
                       ELSE IF copies \/ GroupActions(theirs) = <<>>
                       THEN [value |-> DeepCopyResources(theirs), err |-> "none"]
                       ELSE [value |-> <<>>, err |-> "TypeError"]
             fixed == IF merged.err = "none" THEN FixParents(merged.value) ELSE merged
             keep == has \/ merged.err = "none"
         IN  MergeGroups(
                 [bp |-> IF keep
                         THEN [st.bp EXCEPT !.groups = DictPut(@, name, fixed.value)]
                         ELSE st.bp,
                  err |-> fixed.err],
                 Tail(groups), copies)

\* APIBlueprint.merge: [bp, err]. `self._overview += "\n" + other.overview`
\* raises TypeError when the receiver has no overview.
MergeInto(self, other, copies) ==
    IF other.overview /\ ~self.overview THEN [bp |-> self, err |-> "TypeError"]
    ELSE IF DataStructuresCollide(self.ds, other.ds)
    THEN [bp |-> self, err |-> "ValueError"]
    ELSE MergeGroups(
             [bp |-> [self EXCEPT !.ds = DictUpdate(@, DeepCopyObjects(other.ds))],
              err |-> "none"],
             other.groups, copies)

\* The receiver is parsed.
LoadBlueprint(structure, flavor) ==
    /\ UNCHANGED <<avars, dvars, pvars, qvars>>
    /\ m_count = 0
    /\ m_self' = ParsedBlueprint(structure, flavor, 1)
    /\ m_count' = 1
    /\ UNCHANGED m_other
    /\ m_errs' = <<"none">>

\* self.merge(other) for a parsed Blueprint `other`
Merge(structure, flavor, copies) ==
    /\ UNCHANGED <<avars, dvars, pvars, qvars>>
    /\ m_count >= 1
    /\ m_count <= MaxMerges
    /\ LET other == ParsedBlueprint(structure, flavor, m_count + 1)
           result == MergeInto(m_self, other, copies)
       IN  /\ m_self' = result.bp
           /\ m_other' = other
           /\ m_count' = m_count + 1
           /\ m_errs' = Append1(m_errs, result.err)

InitMerge ==
    /\ m_self = EmptyBlueprint
    /\ m_other = EmptyBlueprint
    /\ m_count = 0
    /\ m_errs = <<>>

\* ------------------------------------- Part IV: the head of _parse(root)
\* The root is known by the tags of its children up to the heading of the
\* first section (the first <h1> from index 2), and by the text of root[0].
MaxRoot == 4

NL == "\n"
COLON == ":"
FormatKey == <<"F", "O", "R", "M", "A", "T">>

RECURSIVE ParseMetadata(_, _, _)
\* The loop over root[0].text.split('\n'): [metadata, err]. str.index raises
\* ValueError where str.find returns -1.
ParseMetadata(lines, i, metadata) ==
    IF i > Len(lines) THEN [metadata |-> metadata, err |-> "none"]
    ELSE LET line == lines[i]
             at == Find(line, COLON)
         IN  IF at = 0 THEN [metadata |-> metadata, err |-> "ValueError"]
             ELSE IF at - 1 < 1
             THEN [metadata |-> metadata, err |-> "APIBlueprintParseError"]
             ELSE ParseMetadata(lines, i + 1,
                      DictPut(metadata, SubSeq(line, 1, at - 1),
                              Strip(From(line, at + 1))))

\* parse_description(root, 2, "h1"): the index (from 1) it stops at
DescriptionEnd(tags) ==
    LET stops == { i \in 3..Len(tags) : tags[i] = "h1" }
    IN  IF stops = {} THEN Len(tags) + 1
        ELSE CHOOSE i \in stops : \A j \in stops : i <= j

\* APIBlueprint.format
Format == IF DictHas(p_metadata, FormatKey) THEN DictGet(p_metadata, FormatKey) ELSE NoTxt

\* _parse up to `current = root[index]`
ParseHead(tags, text) ==
    /\ UNCHANGED <<avars, dvars, mvars, qvars>>
    /\ p_pc = "start"
    /\ p_root' = tags
    /\ p_text' = text
    /\ IF Len(tags) < 3 \/ tags[1] # "p"
       THEN /\ p_pc' = "APIBlueprintParseError"
            /\ UNCHANGED <<p_metadata, p_index>>
       ELSE LET parsed == ParseMetadata(Split(text, NL), 1, <<>>)
                index == DescriptionEnd(tags)
            IN  /\ p_metadata' = parsed.metadata
                /\ IF parsed.err # "none"
                   THEN p_pc' = parsed.err /\ UNCHANGED p_index
                   ELSE IF tags[2] # "h1"
                   THEN p_pc' = "APIBlueprintParseError" /\ UNCHANGED p_index
                   ELSE IF index > Len(tags)
                   THEN p_pc' = "IndexError" /\ UNCHANGED p_index
                   ELSE p_pc' = "sections" /\ p_index' = index

InitHead ==
    /\ p_pc = "start"
    /\ p_root = <<>>
    /\ p_text = <<>>
    /\ p_metadata = <<>>
    /\ p_index = 0

\* ------------------------------------------------ Part V: TitleLifter.run
\* An element is [tag, text, children]; a tag is a sequence of characters, a
\* text a string. A path is the sequence of child indexes from the root.
MaxChildren == 3

DataStructuresTitle == "Data Structures"
PTag == <<"p">>
H1Tag == <<"h", "1">>
Digits == <<"0", "1", "2", "3", "4", "5", "6", "7", "8", "9">>

Element(tag, text, children) == [tag |-> tag, text |-> text, children |-> children]

\* str.isdigit and int() of one character
IsDigit(c) == c \in Range(Digits)
IntOf(c) == (CHOOSE i \in 1..Len(Digits) : Digits[i] = c) - 1

RECURSIVE NodeAt(_, _)
NodeAt(node, path) ==
    IF path = <<>> THEN node ELSE NodeAt(node.children[Head(path)], Tail(path))

RECURSIVE UnwrapAt(_, _)
\* last.text = last[0].text; last.remove(last[0])
UnwrapAt(node, path) ==
    IF path = <<>>
    THEN [node EXCEPT !.text = node.children[1].text, !.children = Tail(@)]
    ELSE [node EXCEPT !.children[Head(path)] = UnwrapAt(@, Tail(path))]

\* The test of the while loop's body, after `last = lifo.pop()`
Unwraps(rest, last) ==
    /\ Len(rest) > 0
    /\ last.text = NL
    /\ Len(last.children) > 0
    /\ last.children[1].tag = PTag

\* An unwrap test that lets only the root through.
UnwrapsBelowRoot(rest, last) ==
    /\ last.text = NL
    /\ Len(last.children) > 0
    /\ last.children[1].tag = PTag

\* sum(1 for item in root if item.tag == "h1" and item.text != "Data Structures")
H1Count(root) ==
    Cardinality({ i \in 1..Len(root.children) :
                    /\ root.children[i].tag = H1Tag
                    /\ root.children[i].text # DataStructuresTitle })

\* Headings that keep their level.
NoRetag(tag) == tag

\* item.tag = "h%d" % (int(tag[1]) - 1)
Retag(tag) == <<"h", ToString(IntOf(tag[2]) - 1)>>

RECURSIVE LiftFrom(_, _)
\* The loop `for item in root` that raises the headings, from the i-th child
LiftFrom(children, i) ==
    IF i > Len(children) THEN children
    ELSE LET tag == children[i].tag
         IN  IF tag = H1Tag
             THEN IF children[i].text = DataStructuresTitle
                  THEN children
                  ELSE LiftFrom(children, i + 1)
             ELSE IF Len(tag) # 2 \/ tag[1] # "h" \/ ~IsDigit(tag[2])
             THEN LiftFrom(children, i + 1)
             ELSE LiftFrom([children EXCEPT ![i].tag = Retag(tag)], i + 1)

\* TitleLifter.run(root) is called: lifo = [root]
CallTitleLifter(root) ==
    /\ UNCHANGED <<avars, dvars, mvars, pvars>>
    /\ q_fn = "idle"
    /\ q_fn' = "TitleLifter.walk"
    /\ q_in' = root
    /\ q_out' = root
    /\ q_stack' = << <<>> >>

\* One turn of `while lifo`
WalkTitleLifter ==
    /\ UNCHANGED <<avars, dvars, mvars, pvars>>
    /\ q_fn = "TitleLifter.walk"
    /\ q_stack # <<>>
    /\ LET path == q_stack[Len(q_stack)]
           rest == SubSeq(q_stack, 1, Len(q_stack) - 1)
           tree == IF Unwraps(rest, NodeAt(q_out, path))
                   THEN UnwrapAt(q_out, path) ELSE q_out
           last == NodeAt(tree, path)
       IN  /\ q_out' = tree
           /\ q_stack' = rest \o [i \in 1..Len(last.children) |-> Append1(path, i)]
    /\ UNCHANGED <<q_fn, q_in>>

\* The rest of run, after the loop
LiftTitleLifter ==
    /\ UNCHANGED <<avars, dvars, mvars, pvars>>
    /\ q_fn = "TitleLifter.walk"
    /\ q_stack = <<>>
    /\ q_fn' = "TitleLifter.done"
    /\ q_out' = IF H1Count(q_out) # 1 THEN q_out
                ELSE [q_out EXCEPT !.children = LiftFrom(@, 1)]
    /\ UNCHANGED <<q_in, q_stack>>

\* ------------------------------------ Part V: Attribute and Parameter
\* A text is a sequence of characters in which a word (`required`, a name, a
\* type) stands as one element: the parsers cut texts at punctuation only.
\* None is NoTxt, the empty string is <<>>.
ArrayWord == "array"
ObjectType == <<"object">>

\* The tri-state that stays unknown for a word that is neither `required`
\* nor `optional`.
RequiredOrUnknown(word) ==
    IF word = <<"required">> THEN "True"
    ELSE IF word = <<"optional">> THEN "False"
    ELSE "None"

\* required = word == "required"; the branch for "optional" assigns False to
\* what is False already.
RequiredOf(word) == IF word = <<"required">> THEN "True" ELSE "False"

\* Attribute.extract_array_subtype raises ValueError
NotArrayType(type) ==
    \/ type = NoTxt
    \/ type = <<>>
    \/ type[1] # ArrayWord
    \/ Len(type) > 1 /\ (type[2] # "[" \/ type[Len(type)] # "]")

\* Attribute.parse_from_string: [err, name, type, required, description, value]
ParseFromString(text) ==
    LET line1 == IF text[1] \in {"-", "+"} THEN Tail(text) ELSE text
        desc_pos == RFind(line1, "-")
        desc == IF desc_pos > 0 THEN Strip(From(line1, desc_pos + 1)) ELSE NoTxt
        line2 == IF desc_pos > 0 THEN Strip(SubSeq(line1, 1, desc_pos - 1)) ELSE line1
        typed == line2 # <<>> /\ line2[Len(line2)] = ")"
        type_pos == RFind(line2, "(")
        type0 == Strip(SubSeq(line2, type_pos + 1, Len(line2) - 1))
        req_pos == RFind(type0, ",")
        type_ == IF ~typed THEN NoTxt
                 ELSE IF req_pos > 0 THEN Strip(SubSeq(type0, 1, req_pos - 1))
                 ELSE type0
        required == IF typed /\ req_pos > 0
                    THEN RequiredOf(Strip(From(type0, req_pos + 1)))
                    ELSE "None"
        line3 == IF typed THEN Strip(SubSeq(line2, 1, type_pos - 1)) ELSE line2
        colon_pos == Find(line3, COLON)
        name == IF colon_pos > 0 THEN Strip(SubSeq(line3, 1, colon_pos - 1)) ELSE line3
        value0 == IF colon_pos > 0 /\ Strip(From(line3, colon_pos + 1)) # <<>>
                  THEN Strip(From(line3, colon_pos + 1)) ELSE NoTxt
        value == IF value0 # NoTxt /\ ~NotArrayType(type_)
                 THEN <<"list">> \o value0 ELSE value0
    IN  IF typed /\ type_pos = 0
        THEN [err |-> "ValueError", name |-> NoTxt, type |-> NoTxt,
              required |-> "None", description |-> NoTxt, value |-> NoTxt]
        ELSE [err |-> "none", name |-> name,
              type |-> IF type_ \in {NoTxt, <<>>} THEN ObjectType ELSE type_,
              required |-> required, description |-> desc, value |-> value]

\* What both parse_from_etree do with the description of the child nodes
JoinDescription(description, desc) ==
    IF description = NoTxt THEN desc
    ELSE IF desc # NoTxt THEN description \o <<NL>> \o desc
    ELSE description

\* Attribute.parse_from_etree of a <li> without a nested list; desc is what
\* parse_description makes of its child nodes.
AttributeParseFromEtree(text, desc) ==
    LET attr == ParseFromString(text)
    IN  IF attr.err # "none" THEN attr
        ELSE [attr EXCEPT !.description = JoinDescription(@, desc)]

\* Parameter.parse_from_etree of the same <li>: the Parameter is built from
\* the fields of attr, but its description from desc.
ParameterParseFromEtree(text, desc) ==
    LET attr == ParseFromString(text)
    IN  IF attr.err # "none" THEN attr
        ELSE [attr EXCEPT !.description = desc]

CallAttribute(text, desc) ==
    /\ UNCHANGED <<avars, dvars, mvars, pvars>>
    /\ q_fn = "idle"
    /\ q_fn' = "Attribute.parse_from_etree"
    /\ q_in' = [text |-> text, desc |-> desc]
    /\ q_out' = AttributeParseFromEtree(text, desc)
    /\ UNCHANGED q_stack

\* The same <li> is given to Parameter.parse_from_etree
CallParameter ==
    /\ UNCHANGED <<avars, dvars, mvars, pvars>>
    /\ q_fn = "Attribute.parse_from_etree"
    /\ q_fn' = "Parameter.parse_from_etree"
    /\ q_out' = ParameterParseFromEtree(q_in.text, q_in.desc)
    /\ UNCHANGED <<q_in, q_stack>>

\* ------------------------------------------------------ Part V: Headers
RECURSIVE HeaderPairs(_)
\* tuple(map(ustr.strip, line.split(':'))) for the lines that are not empty
HeaderPairs(lines) ==
    IF lines = <<>> THEN <<>>
    ELSE IF Head(lines) = <<>> THEN HeaderPairs(Tail(lines))
    ELSE LET parts == Split(Head(lines), COLON)
         IN  <<[i \in 1..Len(parts) |-> Strip(parts[i])]>> \o HeaderPairs(Tail(lines))

RECURSIVE DictOf(_, _)
\* dict(pairs), in the order of insertion
DictOf(pairs, d) ==
    IF pairs = <<>> THEN d
    ELSE DictOf(Tail(pairs), DictPut(d, Head(pairs)[1], Head(pairs)[2]))

Reverse(s) == [i \in 1..Len(s) |-> s[Len(s) + 1 - i]]

\* Headers.parse_from_etree for the text of the block: [err, headers].
\* dict() raises ValueError for a line that does not split in two. The dict
\* iterates in insertion order or, before Python 3.7, in hash order:
\* `reversed` picks the other order OrderedDict(headers) may be built in.
HeadersParse(text, reversed) ==
    LET pairs == HeaderPairs(Split(text, NL))
    IN  IF text = <<>> THEN [err |-> "none", headers |-> <<>>]
        ELSE IF \E i \in 1..Len(pairs) : Len(pairs[i]) # 2
        THEN [err |-> "ValueError", headers |-> <<>>]
        ELSE [err |-> "none",
              headers |-> IF reversed THEN Reverse(DictOf(pairs, <<>>))
                          ELSE DictOf(pairs, <<>>)]

RECURSIVE HeadersStr(_)
\* Headers.__str__: "\n".join("%s: %s" % p for p in self)
HeadersStr(headers) ==
    IF headers = <<>> THEN <<>>
    ELSE Head(headers)[1] \o <<COLON, SP>> \o Head(headers)[2]
         \o (IF Len(headers) > 1 THEN <<NL>> \o HeadersStr(Tail(headers)) ELSE <<>>)

CallHeaders(text, reversed) ==
    /\ UNCHANGED <<avars, dvars, mvars, pvars>>
    /\ q_fn = "idle"
    /\ q_fn' = "Headers.parse_from_etree"
    /\ q_in' = text
    /\ q_out' = HeadersParse(text, reversed)
    /\ UNCHANGED q_stack

\* str() of the Headers built, parsed again
ReparseHeaders(reversed) ==
    /\ UNCHANGED <<avars, dvars, mvars, pvars>>
    /\ q_fn = "Headers.parse_from_etree"
    /\ q_out.err = "none"
    /\ q_fn' = "Headers.parse_from_etree(str)"
    /\ q_in' = q_out.headers
    /\ q_out' = HeadersParse(HeadersStr(q_out.headers), reversed)
    /\ UNCHANGED q_stack

\* ------------------------------------------ Part V: IndentationAligner
RECURSIVE LeadingSpaces(_)
\* the i the while loop stops at: the count of leading spaces
LeadingSpaces(line) ==
    IF line # <<>> /\ Head(line) = SP THEN 1 + LeadingSpaces(Tail(line)) ELSE 0

\* ' ' * n
Blank(n) == [k \in 1..n |-> SP]

\* the body of the loop for one line, once i is known
Aligned(line) ==
    LET i == LeadingSpaces(line)
    IN  IF i > 0 /\ i % 4 # 0
        THEN Blank(i + (4 - (i % 4))) \o From(line, i + 1)
        ELSE line

\* mdparser.py bounds the scan by len(line); parser.py does not, and reads
\* line[len(line)] for a line that holds nothing but spaces: IndexError.
ScanRaises(version, line) ==
    /\ version = "parser.py"
    /\ line # <<>>
    /\ LeadingSpaces(line) = Len(line)

\* IndentationAligner.run(lines): [err, lines]
AlignerRun(version, lines) ==
    IF \E k \in 1..Len(lines) : ScanRaises(version, lines[k])
    THEN [err |-> "IndexError", lines |-> <<>>]
    ELSE [err |-> "none", lines |-> [k \in 1..Len(lines) |-> Aligned(lines[k])]]

CallAligner(version, lines) ==
    /\ UNCHANGED <<avars, dvars, mvars, pvars>>
    /\ q_fn = "idle"
    /\ q_fn' = "IndentationAligner.run"
    /\ q_in' = [version |-> version, lines |-> lines]
    /\ q_out' = AlignerRun(version, lines)
    /\ UNCHANGED q_stack

\* run() on the lines that run() returned
CallAlignerAgain ==
    /\ UNCHANGED <<avars, dvars, mvars, pvars>>
    /\ q_fn = "IndentationAligner.run"
    /\ q_out.err = "none"
    /\ q_fn' = "IndentationAligner.run(run)"
    /\ q_in' = [version |-> q_in.version, lines |-> q_out.lines]
    /\ q_out' = AlignerRun(q_in.version, q_out.lines)
    /\ UNCHANGED q_stack

\* ---------------------------------------- Part V: a Response and its code
\* PredefinedPayloadSection.parse_definition: [err, name, media_type] of the
\* text of a payload <li>; the name is NoTxt when the text gives none.
ParseDefinition(text) ==
    LET txt == IF Find(text, NL) > 0 THEN SubSeq(text, 1, Find(text, NL) - 1) ELSE text
        sep_pos == SelectPos(txt)
        rest == Strip(From(txt, sep_pos + 1))
        br_pos == RFind(rest, "(")
    IN  IF sep_pos = 0 \/ rest = <<>>
        THEN [err |-> "none", name |-> NoTxt, media_type |-> NoTxt]
        ELSE IF rest[Len(rest)] = ")"
        THEN IF br_pos = 0
             THEN [err |-> "ValueError", name |-> NoTxt, media_type |-> NoTxt]
             ELSE [err |-> "none",
                   name |-> IF br_pos > 1 THEN SubSeq(rest, 1, br_pos - 2) ELSE NoTxt,
                   media_type |->
                       Split(Strip(SubSeq(rest, br_pos + 1, Len(rest) - 1)), "/")]
        ELSE [err |-> "none", name |-> rest, media_type |-> NoTxt]

RECURSIVE IntOfStr(_, _)
\* int(s) for a string of digits
IntOfStr(s, n) == IF s = <<>> THEN n ELSE IntOfStr(Tail(s), 10 * n + IntOf(Head(s)))

\* Response.http_code, int(self._name): [err, code]. int(None) raises
\* TypeError and int() of what is no number raises ValueError.
ResponseHttpCode(name) ==
    IF name = NoTxt THEN [err |-> "TypeError", code |-> 0]
    ELSE IF name = <<>> \/ \E i \in 1..Len(name) : ~IsDigit(name[i])
    THEN [err |-> "ValueError", code |-> 0]
    ELSE [err |-> "none", code |-> IntOfStr(name, 0)]

\* Action.__init__, the loop over the responses, for one Response: [err,
\* responses]. http_code returns an int or raises, so the branch
\* `if code is None: code = 200` is never taken.
ActionResponses(name) ==
    LET code == ResponseHttpCode(name)
    IN  IF code.err # "none" THEN [err |-> code.err, responses |-> <<>>]
        ELSE [err |-> "none", responses |-> DictPut(<<>>, code.code, <<name>>)]

\* Response.parse_from_etree as far as the definition goes
CallResponse(text) ==
    /\ UNCHANGED <<avars, dvars, mvars, pvars>>
    /\ q_fn = "idle"
    /\ q_fn' = "Response.parse_from_etree"
    /\ q_in' = text
    /\ q_out' = ParseDefinition(text)
    /\ UNCHANGED q_stack

\* Action(...) on the Response parsed
IndexResponse ==
    /\ UNCHANGED <<avars, dvars, mvars, pvars>>
    /\ q_fn = "Response.parse_from_etree"
    /\ q_out.err = "none"
    /\ q_fn' = "Action.__init__"
    /\ q_out' = ActionResponses(q_out.name)
    /\ UNCHANGED <<q_in, q_stack>>

InitCall ==
    /\ q_fn = "idle"
    /\ q_in = <<>>
    /\ q_out = <<>>
    /\ q_stack = <<>>

\* ---------------------------------------------------------- specifications
Init == InitAction /\ InitDoc /\ InitMerge /\ InitHead /\ InitCall

\* Spec: the walk over the bullet list of one Action.
Next ==
    \/ \E name \in RequestNames : ParseRequest(name, FALSE)
    \/ ParseRequest(NoneStr, TRUE)
    \/ \E name \in ResponseNames : ParseResponse(name)
    \/ ParseAttributes
    \/ ParseUnknown
    \/ FinishAction

Spec == Init /\ [][Next]_vars

\* SpecParents: the same walk, the parents of the sections recorded.
NextParents ==
    \/ \E name \in RequestNames : ParseRequest(name, FALSE)
    \/ ParseRequest(NoneStr, TRUE)
    \/ \E name \in ResponseNames : ParseResponse(name)
    \/ ParseAttributes
    \/ ParseUnknown
    \/ FinishActionParents

SpecParents == Init /\ [][NextParents]_vars

\* SpecDoc: the walk over the headings of a document whose sections declare
\* neither Attributes nor Models: definitions, order, the path index.
NoForm == [kind |-> "none", reference |-> NoTxt]
NoSections == [has_ul |-> FALSE, attributes |-> NoForm, model |-> 0, payloads |-> <<>>]
PlainResponse == [kind |-> "Response", own |-> FALSE, reference |-> NoTxt]
PayloadSections ==
    [has_ul |-> TRUE, attributes |-> NoForm, model |-> 0, payloads |-> <<PlainResponse>>]
PlainBody == [attributes |-> NoForm, payloads |-> <<PlainResponse>>]

Def(name, method, template) == [name |-> name, method |-> method, template |-> template]

DocGroupTexts == { GroupWord \o <<SP, "A">>, GroupWord \o <<SP, "B">> }
DocResourceDefs ==
    { Def(NoTxt, NoTxt, <<"/", "a">>),
      Def(<<"N">>, POST, <<"/", "a", "/", "b">>) }
DocActionDefs ==
    { Def(NoTxt, GET, NoTxt),
      Def(NoTxt, POST, NoTxt),
      Def(<<"M">>, GET, <<"/", "a", "b", "/", "{x}">>),
      Def(<<"K">>, POST, <<"/", "a", ":", "c">>) }

NextDoc ==
    \/ \E text \in DocGroupTexts : ParseGroupHeading(text)
    \/ \E top \in BOOLEAN, given \in DocResourceDefs :
          ParseResourceHeading(top, given, NoSections, FALSE)
    \/ \E top \in BOOLEAN, given \in DocResourceDefs :
          ParseResourceHeading(top, given, PayloadSections, TRUE)
    \/ \E given \in DocActionDefs : ParseActionHeading(given, PlainBody)
    \/ Finish

SpecDoc == Init /\ [][NextDoc]_vars

\* SpecRefs: the walk over the headings of a document of Resources named N
\* that declare Attributes and Models, and Actions that refer to them.
RefForm(reference) == [kind |-> "ref", reference |-> reference]
InlineForm == [kind |-> "inline", reference |-> NoTxt]
Payload(kind, own, reference) == [kind |-> kind, own |-> own, reference |-> reference]

RefResourceDef == Def(<<"N">>, NoTxt, <<"/", "a">>)
RefGroupText == GroupWord \o <<SP, "A">>

\* <ul> of a Resource: Attributes with children and Model 1; Model 2 alone;
\* a Response `[N][]`, which makes the window a single implicit Action.
RefOpenSections ==
    { NoSections,
      [has_ul |-> TRUE, attributes |-> InlineForm, model |-> 1, payloads |-> <<>>] }
RefClosedSections ==
    { [has_ul |-> TRUE, attributes |-> NoForm, model |-> 2, payloads |-> <<>>],
      [has_ul |-> TRUE, attributes |-> NoForm, model |-> 0,
       payloads |-> <<Payload("Response", FALSE, <<"N">>)>>] }

\* <ul> of an Action
RefBodies ==
    { [attributes |-> RefForm(<<"N">>),
       payloads |-> <<Payload("Request", FALSE, NoTxt)>>],
      [attributes |-> InlineForm,
       payloads |-> <<Payload("Request", FALSE, NoTxt), Payload("Request", TRUE, NoTxt)>>],
      [attributes |-> NoForm,
       payloads |-> <<Payload("Request", FALSE, <<"N">>),
                      Payload("Response", FALSE, <<"N">>)>>],
      [attributes |-> InlineForm,
       payloads |-> <<Payload("Request", FALSE, <<"N">>)>>],
      [attributes |-> RefForm(<<"X">>),
       payloads |-> <<Payload("Request", FALSE, NoTxt)>>] }

NextRefs ==
    \/ ParseGroupHeading(RefGroupText)
    \/ \E top \in BOOLEAN, sections \in RefOpenSections :
          ParseResourceHeading(top, RefResourceDef, sections, FALSE)
    \/ \E top \in BOOLEAN, sections \in RefClosedSections :
          ParseResourceHeading(top, RefResourceDef, sections, TRUE)
    \/ \E body \in RefBodies : ParseActionHeading(Def(NoTxt, GET, NoTxt), body)
    \/ Finish

SpecRefs == Init /\ [][NextRefs]_vars

\* SpecDS: the walk over the top-level windows of a document with a `Data
\* Structures` window, and Resources and Actions whose Attributes refer to a
\* Resource (N), to a data structure (D) or to nothing known (X).
DsResourceDefs ==
    { RefResourceDef, Def(<<"P">>, NoTxt, <<"/", "a", "/", "b">>) }
DsWindowDef == Def(NoTxt, NoTxt, DataStructuresText)
DsAttributeForms == { InlineForm, RefForm(<<"N">>), RefForm(<<"D">>) }
DsSections(form) ==
    [has_ul |-> TRUE, attributes |-> form, model |-> 0, payloads |-> <<>>]

\* <ul> of an Action: `Attributes (REF)` and a Request
DsBodies ==
    { [attributes |-> RefForm(ref), payloads |-> <<Payload("Request", FALSE, NoTxt)>>] :
        ref \in { <<"N">>, <<"D">>, <<"X">> } }

\* A heading inside the `Data Structures` window with its member list, read
\* as an Action heading when the window is parsed as a Resource.
DsEntryDef == Def(NoTxt, <<"D">>, NoTxt)
DsEntryBody == [attributes |-> NoForm, payloads |-> <<>>]

\* The headings inside the last window
Entry(name, value, reference) == [name |-> name, value |-> value, reference |-> reference]
DsEntries ==
    { <<Entry(<<"D">>, "none", NoTxt)>>,
      <<Entry(<<"D">>, "string", NoTxt)>>,
      <<Entry(<<"D">>, "children", NoTxt)>>,
      <<Entry(<<"D">>, "none", <<"N">>)>>,
      <<Entry(<<"E">>, "children", NoTxt), Entry(<<"D">>, "none", <<"X">>)>> }

NextDS ==
    \/ ParseGroupHeading(RefGroupText)
    \/ \E top \in BOOLEAN, given \in DsResourceDefs, form \in DsAttributeForms,
          closed \in BOOLEAN :
          ParseResourceHeading(top, given, DsSections(form), closed)
    \/ ParseResourceHeading(TRUE, DsWindowDef, NoSections, FALSE)
    \/ \E body \in DsBodies : ParseActionHeading(Def(NoTxt, GET, NoTxt), body)
    \/ ParseActionHeading(DsEntryDef, DsEntryBody)
    \/ \E entries \in DsEntries : ParseDataStructures(entries)
    \/ Finish

SpecDS == Init /\ [][NextDS]_vars

\* SpecMerge: a receiver and the Blueprints merged into it one after another.
MergeStructures ==
    { <<NoneStr, "N", "GET">>, <<NoneStr, "N", "POST">>,
      <<NoneStr, "P", "GET">>, <<"A", "N", "GET">>, <<"B", "N", "GET">> }
MergeFlavors == {"plain", "linked", "bare", "ds"}

NextMerge ==
    \/ \E structure \in MergeStructures, flavor \in MergeFlavors :
          LoadBlueprint(structure, flavor)
    \/ \E structure \in MergeStructures, flavor \in MergeFlavors, copies \in BOOLEAN :
          Merge(structure, flavor, copies)

SpecMerge == Init /\ [][NextMerge]_vars

\* SpecParse: _parse from the root to the returned Blueprint, for documents
\* with top-level Resources.
Tags == {"p", "h1", "ul"}
Roots ==
    { tags \in UNION { [1..n -> Tags] : n \in 0..MaxRoot } :
        \A i \in 3..(Len(tags) - 1) : tags[i] # "h1" }
MetaLines ==
    { FormatKey \o <<COLON, SP, "1", "A">>,
      <<"H", "O", "S", "T", COLON, SP, "x">>,
      <<"H", "O", "S", "T">>,
      <<COLON, SP, "x">> }
MetaTexts == MetaLines \cup { a \o <<NL>> \o b : a, b \in MetaLines }

ParseResourceDefs ==
    { Def(NoTxt, NoTxt, <<"/", "a">>),
      Def(<<"N">>, NoTxt, NoTxt) }
ParseActionDefs == { Def(NoTxt, GET, NoTxt), Def(<<"M">>, POST, <<"/", "b">>) }

NextParse ==
    \/ /\ p_pc = "start"
       /\ \E tags \in Roots, text \in MetaTexts : ParseHead(tags, text)
    \/ /\ p_pc = "sections"
       /\ \E given \in ParseResourceDefs : ParseResourceHeading(TRUE, given, NoSections, FALSE)
    \/ /\ p_pc = "sections"
       /\ \E given \in ParseActionDefs : ParseActionHeading(given, PlainBody)
    \/ /\ p_pc = "sections"
       /\ Finish

SpecParse == Init /\ [][NextParse]_vars

\* SpecImplicit: documents whose Resource windows are one heading
\* `METHOD template` and a list of Requests and Responses (each Response with
\* its status code), at top level and inside groups.
ImplicitDefs ==
    { Def(NoTxt, GET, <<"/", "a">>),
      Def(NoTxt, POST, <<"/", "b">>) }
ImplicitSections ==
    { [has_ul |-> TRUE, attributes |-> NoForm, model |-> 0, payloads |-> payloads] :
        payloads \in { <<Payload("Response", FALSE, NoTxt)>>,
                       <<Payload("Request", TRUE, NoTxt), Payload("Response", FALSE, NoTxt),
                         Payload("Response", FALSE, NoTxt)>> } }

NextImplicit ==
    \/ ParseGroupHeading(RefGroupText)
    \/ \E top \in BOOLEAN, given \in ImplicitDefs, sections \in ImplicitSections :
          ParseResourceHeading(top, given, sections, TRUE)
    \/ Finish

SpecImplicit == Init /\ [][NextImplicit]_vars

\* SpecLift: TitleLifter.run on roots of up to MaxChildren children:
\* headings, paragraphs, rules, and blocks whose text is wrapped in a <p>.
Leaf(tag, text) == Element(tag, text, <<>>)
Wrapped(tag, text) == Element(tag, NL, <<Leaf(PTag, text)>>)
LiftChildren ==
    { Leaf(H1Tag, "T"), Leaf(H1Tag, DataStructuresTitle),
      Leaf(<<"h", "2">>, "T"), Leaf(<<"h", "3">>, "T"),
      Leaf(PTag, "T"), Leaf(<<"h", "r">>, "None"),
      Wrapped(<<"b", "l", "o", "c", "k", "q", "u", "o", "t", "e">>, "T"),
      Element(<<"u", "l">>, NL, <<Wrapped(<<"l", "i">>, "A"), Wrapped(<<"l", "i">>, "B")>>) }
LiftRoots ==
    { Element(<<"d", "i", "v">>, NL, children) :
        children \in UNION { [1..n -> LiftChildren] : n \in 0..MaxChildren } }

NextLift ==
    \/ /\ q_fn = "idle"
       /\ \E root \in LiftRoots : CallTitleLifter(root)
    \/ WalkTitleLifter
    \/ LiftTitleLifter

SpecLift == Init /\ [][NextLift]_vars

\* SpecAttr: bullets `name[: value] [(type[, word])] [- description]`, with
\* or without paragraphs below the bullet text.
AttrNames == { <<"id">>, <<"id", COLON, SP, "v">> }
AttrSuffixes ==
    { <<>>, <<SP, "(", "string", ")">>,
      <<SP, "(", "string", ",", SP, "required", ")">>,
      <<SP, "(", "string", ",", SP, "optional", ")">>,
      <<SP, "(", "string", ",", "required", SP, ")">>,
      <<SP, "(", "string", ",", SP, "fixed", ")">>,
      <<SP, "(", "enum", ",", SP, "number", ",", SP, "optional", ")">>,
      <<SP, "(", "required", ")">>,
      <<SP, "(", "array", ",", SP, "nullable", ")">> }
AttrTails == { <<>>, <<SP, "-", SP, "text">>, <<SP, "-", SP, "the", SP, "key">> }
AttrTexts ==
    { lead \o name \o suffix \o tail :
        lead \in {<<>>, <<"+">>}, name \in AttrNames,
        suffix \in AttrSuffixes, tail \in AttrTails }
AttrDescs == { NoTxt, <<"<p>", "more", "</p>">> }

NextAttr ==
    \/ /\ q_fn = "idle"
       /\ \E text \in AttrTexts, desc \in AttrDescs : CallAttribute(text, desc)
    \/ CallParameter

SpecAttr == Init /\ [][NextAttr]_vars

\* SpecHeaders: header blocks of one or two lines.
HeaderLines ==
    { <<"A", COLON, SP, "1">>,
      <<"B", COLON, SP, "2">>,
      <<SP, "A", SP, COLON, "3", SP>>,
      <<"L", COLON, SP, "http", COLON, "//x">>,
      <<"T", COLON, SP, "12", COLON, "30", COLON, "00">>,
      <<"C", COLON>>,
      <<"B", COLON, SP, "4">>,
      <<"D">>,
      <<>> }
HeaderTexts == HeaderLines \cup { a \o <<NL>> \o b : a, b \in HeaderLines }

NextHeaders ==
    \/ /\ q_fn = "idle"
       /\ \E text \in HeaderTexts, reversed \in BOOLEAN : CallHeaders(text, reversed)
    \/ \E reversed \in BOOLEAN : ReparseHeaders(reversed)

SpecHeaders == Init /\ [][NextHeaders]_vars

\* SpecIndent: one or two lines of up to MaxIndent spaces, then nothing, a
\* letter or a tab and a letter.
MaxIndent == 5
AlignerVersions == {"mdparser.py", "parser.py"}
IndentTails == {<<>>, <<"a">>, <<"\t", "a">>}
IndentLines == { Blank(n) \o t : n \in 0..MaxIndent, t \in IndentTails }
IndentTexts == { <<a>> : a \in IndentLines } \cup { <<a, b>> : a, b \in IndentLines }

NextIndent ==
    \/ /\ q_fn = "idle"
       /\ \E version \in AlignerVersions, lines \in IndentTexts :
              CallAligner(version, lines)
    \/ CallAlignerAgain

SpecIndent == Init /\ [][NextIndent]_vars

\* SpecResponse: the texts of one Response <li>.
MediaAB == <<"(", "a", "/", "b", ")">>
ResponseCodes == { <<>>, <<"2", "0", "0">>, <<"2", "0", "1">>, <<"4", "0", "4">>,
                   <<"5", "0", "0">>, <<"o", "k">> }
ResponseMedia == { <<>>, <<SP>> \o MediaAB, MediaAB, <<SP, "(", "a", ")">>, <<SP, "a", ")">> }
ResponseTails == { <<>>, <<NL, "d">> }
ResponseTexts ==
    { <<"Response">> \o t : t \in ResponseTails } \cup
    { <<"Response">> \o sep \o code \o media \o t :
        sep \in {<<SP>>, <<SP, SP>>}, code \in ResponseCodes,
        media \in ResponseMedia, t \in ResponseTails }

NextResponse ==
    \/ /\ q_fn = "idle"
       /\ \E text \in ResponseTexts : CallResponse(text)
    \/ IndexResponse

SpecResponse == Init /\ [][NextResponse]_vars

\* -------------------------------------------------------- claims of Part I
\* The items of the list that are instances of the Response parsed at <li> n.
InstancesOf(n, ids) == { id \in Range(ids) : id[1] = n }

\* C1: a Response parsed while k >= 1 Requests are pending adds exactly k
\* Response instances to the Action's responses, pairwise distinct and new,
\* the i-th with its request set to the i-th pending Request, and each pending
\* Request gets exactly that instance appended to its linked responses; with
\* k = 0 one instance is added and its request is None.
C1_Step ==
    LET n == Len(items')
    IN  (Len(items') = Len(items) + 1 /\ items'[n].kind = "Response") =>
        LET k == Len(current_requests)
            m == IF k = 0 THEN 1 ELSE k
            old == Len(kw_responses)
            added == SubSeq(kw_responses', old + 1, Len(kw_responses'))
        IN  /\ Len(kw_responses') = old + m
            /\ SubSeq(kw_responses', 1, old) = kw_responses
            /\ \A i \in 1..m : /\ added[i] \notin DOMAIN heap
                               /\ added[i][1] = n
                               /\ heap'[added[i]].kind = "Response"
            /\ \A i, j \in 1..m : i # j => added[i] # added[j]
            /\ k = 0 => heap'[added[1]].request = NoId
            /\ \A i \in 1..k :
                  /\ heap'[added[i]].request = current_requests[i]
                  /\ heap'[current_requests[i]].responses =
                        Append1(heap[current_requests[i]].responses, added[i])
C1_ResponseFanOut == [][C1_Step]_vars

\* A Response was fanned out over three pending Requests.
C1_Witness ==
    \E a, b, c \in Range(kw_responses) :
        /\ a[1] = b[1] /\ b[1] = c[1]
        /\ Cardinality({a, b, c}) = 3
        /\ NoId \notin {heap[a].request, heap[b].request, heap[c].request}
        /\ Cardinality({heap[a].request, heap[b].request, heap[c].request}) = 3

\* C2: every Request of the maximal run of back-to-back Request items right
\* before a Response R has an instance of R among its linked responses,
\* whatever came earlier in the list.
C2_RunLinked ==
    \A n \in 1..Len(items) :
        items[n].kind = "Response" =>
            \A j \in 1..(n - 1) :
                (\A m \in j..(n - 1) : items[m].kind = "Request") =>
                    InstancesOf(n, heap[SectionId(j)].responses) # {}

\* The first item of the given kind after position i, 0 when there is none.
FirstAfter(kind, i) ==
    LET later == { n \in (i + 1)..Len(items) : items[n].kind = kind }
    IN  IF later = {} THEN 0 ELSE CHOOSE n \in later : \A m \in later : n <= m

\* C3: for a Request Q1 followed by a Response and then by a Request Q2 (the
\* first after that Response), Q1 is linked to no Response that comes after
\* Q2, and Q1's linked responses are exactly the Responses between Q1 and Q2.
C3_DropOnNextRequest ==
    \A i \in 1..Len(items) :
        items[i].kind = "Request" =>
            LET r == FirstAfter("Response", i)
                q2 == IF r = 0 THEN 0 ELSE FirstAfter("Request", r)
                linked == { id[1] : id \in Range(heap[SectionId(i)].responses) }
            IN  q2 # 0 =>
                    /\ \A n \in linked : n < q2
                    /\ linked = { n \in (i + 1)..(q2 - 1) : items[n].kind = "Response" }

InSourceOrder(ids, objects) ==
    \A i, j \in 1..Len(ids) : i < j => objects[ids[i]].pos < objects[ids[j]].pos

\* C6: iteration yields the groups, the resources of each group and the
\* actions of each resource in the order of their headings, for every
\* document, also one with equal keys.
C6_SourceOrder ==
    /\ InSourceOrder(Groups, grp)
    /\ \A i \in 1..Len(Groups) :
          InSourceOrder(DictValues(grp[Groups[i]].resources), res)
    /\ \A i \in 1..Len(Resources) :
          InSourceOrder(DictValues(res[Resources[i]].actions), act)

\* The non-empty '/'-separated segments of a path.
Segments(u) == SelectSeq(Split(u, "/"), LAMBDA sub : sub # <<>>)

RECURSIVE JoinSegments(_)
JoinSegments(segs) ==
    IF segs = <<>> THEN <<>> ELSE <<"/">> \o Head(segs) \o JoinSegments(Tail(segs))

\* The prefixes got by progressively appending the segments of a URI.
SegmentPrefixes(u) ==
    { JoinSegments(SubSeq(Segments(u), 1, k)) : k \in 1..Len(Segments(u)) }

\* p is u cut after one of its segments (or the root).
StartsOnSegments(u, p) ==
    LET ps == Segments(p)
        us == Segments(u)
    IN  Len(ps) <= Len(us) /\ SubSeq(us, 1, Len(ps)) = ps

\* B[p + ":" + method]; the key cannot be made of a method that is None.
LookupMethod(p, method) ==
    IF method = NoTxt THEN [ok |-> FALSE, value |-> <<>>]
    ELSE GetItem(p \o <<":">> \o method)

Count(seq, e) == Cardinality({ i \in 1..Len(seq) : seq[i] = e })

\* B["/"] holds every action of the Blueprint exactly once.
RootHoldsAll ==
    LET root == GetItem(<<"/">>)
    IN  /\ Actions # <<>> => root.ok
        /\ Range(root.value) = Range(Actions)
        /\ \A a \in Range(Actions) : Count(root.value, a) = 1

\* C7 as stated: after a parse, for every Action a and every segment prefix
\* p of its expanded URI, B[p + ":" + a.request_method] contains a, and
\* B["/"] contains every action exactly once.
C7_Original ==
    dpc = "done" =>
        /\ \A a \in Range(Actions) : \A p \in SegmentPrefixes(Uri(act[a])) :
              a \in Range(LookupMethod(p, act[a].method).value)
        /\ RootHoldsAll

\* C7, amended: the same for every Action that has a request method and for
\* every prefix without a colon (the key is cut at its first colon).
C7_Indexed ==
    dpc = "done" =>
        /\ \A a \in Range(Actions) : \A p \in SegmentPrefixes(Uri(act[a])) :
              (act[a].method # NoTxt /\ Find(p, ":") = 0) =>
                  a \in Range(LookupMethod(p, act[a].method).value)
        /\ RootHoldsAll

\* A parsed document with an Action under a two-segment URI, found under both
\* prefixes, and three actions in all.
C7_Witness ==
    /\ dpc = "done"
    /\ Len(Actions) >= 3
    /\ \E a \in Range(Actions) :
          /\ act[a].method # NoTxt
          /\ Cardinality(SegmentPrefixes(Uri(act[a]))) = 2
          /\ \A p \in SegmentPrefixes(Uri(act[a])) :
                a \in Range(LookupMethod(p, act[a].method).value)

\* The paths and methods asked of the index.
QueryPaths ==
    { <<"/", "a">>, <<"/", "a", "/", "b">>, <<"/", "a", "b">>, <<"/", "b">>,
      <<"/", "a", "/">>, <<"/", "a", "/", "c">> }
QueryMethods == {GET, POST}

\* C8: every action B[p + ":" + M] returns has method M and a URI that
\* starts with p on whole segments, and the lookup returns no action when no
\* action's URI starts with p.
C8_Original ==
    dpc = "done" =>
        \A p \in QueryPaths, M \in QueryMethods :
            LET found == LookupMethod(p, M).value
            IN  /\ \A a \in Range(found) :
                      act[a].method = M /\ StartsOnSegments(Uri(act[a]), p)
                /\ (\A a \in Range(Actions) : ~StartsOnSegments(Uri(act[a]), p))
                      => found = <<>>

\* The keys of the index: the root and the segment prefixes of the URIs.
IndexedKeys == {<<"/">>} \cup UNION { SegmentPrefixes(Uri(act[a])) : a \in Range(Actions) }

\* p without its trailing slash
TrimSlash(p) == IF Len(p) > 1 /\ p[Len(p)] = "/" THEN SubSeq(p, 1, Len(p) - 1) ELSE p

\* The longest indexed key that is a prefix of p, character by character.
FallbackKey(p) ==
    CHOOSE k \in IndexedKeys :
        /\ StartsWith(TrimSlash(p), k)
        /\ \A k2 \in IndexedKeys : StartsWith(TrimSlash(p), k2) => Len(k2) <= Len(k)

\* C8, amended: B[p + ":" + M] returns exactly the actions of method M under
\* the longest indexed key that is a character prefix of p; when some
\* action's URI starts with p every action returned has a URI that starts
\* with p, and otherwise the lookup falls back to a shorter key, the root at
\* least, and returns that key's actions of method M.
C8_LongestPrefix ==
    (dpc = "done" /\ Actions # <<>>) =>
        \A p \in QueryPaths, M \in QueryMethods :
            LET found == LookupMethod(p, M)
                k == FallbackKey(p)
            IN  /\ found.ok
                /\ Range(found.value) =
                      { a \in Range(Actions) :
                          act[a].method = M /\ StartsOnSegments(Uri(act[a]), k) }
                /\ (\E a \in Range(Actions) : StartsOnSegments(Uri(act[a]), p))
                      => \A a \in Range(found.value) :
                            act[a].method = M /\ StartsOnSegments(Uri(act[a]), p)

\* A parsed document asked for a path no action's URI starts with, which
\* returns the actions of a shorter key, and for a path of two segments that
\* returns an action under it and leaves out an action of the same method.
C8_Witness ==
    /\ dpc = "done"
    /\ \E p \in QueryPaths, M \in QueryMethods :
          /\ \A a \in Range(Actions) : ~StartsOnSegments(Uri(act[a]), p)
          /\ LookupMethod(p, M).value # <<>>
    /\ \E p \in QueryPaths, M \in QueryMethods :
          /\ Len(Segments(p)) = 2
          /\ LookupMethod(p, M).value # <<>>
          /\ \A a \in Range(LookupMethod(p, M).value) : StartsOnSegments(Uri(act[a]), p)
          /\ \E a \in Range(Actions) :
                act[a].method = M /\ a \notin Range(LookupMethod(p, M).value)

\* The position of an action in B.actions.
IndexIn(seq, e) == CHOOSE i \in 1..Len(seq) : seq[i] = e

\* C9: B[p] returns the actions under p in declaration order, the order in
\* which B.actions yields them.
C9_Original ==
    dpc = "done" =>
        \A p \in QueryPaths \cup {<<"/">>} :
            LET found == GetItem(p).value
            IN  \A i, j \in 1..Len(found) :
                    i < j => IndexIn(Actions, found[i]) < IndexIn(Actions, found[j])

\* C4: after the parse and the resolution pass, a Request that declared no
\* Attributes of its own has the very Attributes object of its Action (None
\* when the Action has none), whatever the form of the Action's Attributes.
C4_Original ==
    dpc = "done" =>
        \A a \in Range(Actions) : \A i \in 1..Len(act[a].payloads) :
            LET q == act[a].payloads[i]
            IN  (q.kind = "Request" /\ ~q.own) => q.attributes = act[a].attributes

\* C10: a Request or Response whose model reference REF was resolved has the
\* body and attributes of the Model registered for Resource REF at the end
\* of the parse.
C10_Original ==
    dpc = "done" =>
        \A a \in Range(Actions) : \A i \in 1..Len(act[a].payloads) :
            LET rr == act[a].payloads[i]
            IN  rr.copied =>
                    /\ DictHas(b_models, rr.reference)
                    /\ rr.body = DictGet(b_models, rr.reference).body
                    /\ rr.attributes = DictGet(b_models, rr.reference).attributes

\* A Resource the Blueprint yields is named NAME and declares a Model.
DeclaresModel(name) ==
    \E r \in Range(Resources) : res[r].name = name /\ res[r].model # NoModel

\* C11: when parsing has finished, every Request or Response that is a bare
\* `[NAME][]`, NAME a Resource that declares a Model, holds the Model's fields,
\* wherever Resource NAME stands and also in a single implicit Action.
C11_Original ==
    dpc = "done" =>
        \A a \in Range(Actions) : \A i \in 1..Len(act[a].payloads) :
            LET rr == act[a].payloads[i]
            IN  (rr.reference # NoTxt /\ DeclaresModel(rr.reference)) => rr.copied

\* An Attributes section in the reference form `Attributes (REF)`.
IsReference(attributes) == attributes # NoAttrs /\ attributes.reference # NoTxt

\* data_structures[REF] exists and holds a value.
HasDataStructure(ref) ==
    /\ DictHas(b_data_structures, ref)
    /\ DictGet(ResolvedDataStructures, ref) # NoAttrs

\* What C12 says of a section whose Attributes were `old` and are now `new`:
\* the Attributes registered for REF, else data_structures[REF] or an
\* Attributes object made of it, else null.
ResolvedAsStated(old, new) ==
    LET ref == old.reference
    IN  IF DictHas(b_attributes, ref) THEN new = DictGet(b_attributes, ref)
        ELSE IF HasDataStructure(ref)
        THEN new = DictGet(ResolvedDataStructures, ref) \/ new.owner = "resolved"
        ELSE new = NoAttrs

\* The step that runs the resolution pass: the end of a parse whose Actions
\* all have a URI template.
ResolutionStep ==
    /\ dpc \in {"parse", "last"}
    /\ dpc' \notin {"parse", "more", "last"}
    /\ \A a \in Range(Actions) : act[a].template # NoTxt

\* C12: the resolution pass completes without raising, and a Resource or
\* Action with `Attributes (REF)` ends with the Attributes registered for
\* Resource REF, else with attributes from data_structures[REF], else null.
C12_Step ==
    ResolutionStep =>
        /\ dpc' = "done"
        /\ \A r \in Range(Resources) :
              IsReference(res[r].attributes) =>
                  ResolvedAsStated(res[r].attributes, res'[r].attributes)
        /\ \A a \in Range(Actions) :
              IsReference(act[a].attributes) =>
                  ResolvedAsStated(act[a].attributes, act'[a].attributes)

C12_Original == [][C12_Step]_vars

\* C13: after the resolution pass no Resource and no Action holds an
\* Attributes node that still carries a reference (and so no children).
C13_Original ==
    dpc = "done" =>
        /\ \A r \in Range(Resources) : ~IsReference(res[r].attributes)
        /\ \A a \in Range(Actions) : ~IsReference(act[a].attributes)

\* The Resources made of a window whose heading is `Data Structures`.
WindowResources == { r \in DOMAIN res : IsDataStructures(res[r].template) }

\* C14: a top-level window headed `Data Structures` makes no Resource in any
\* group, and each heading inside it is stored under data_structures[name],
\* wherever the window stands among the top-level windows.
C14_Original ==
    dpc = "done" =>
        /\ \A r \in Range(Resources) : r \notin WindowResources
        /\ \A a \in DOMAIN act :
              act[a].resource \in WindowResources =>
                  DictHas(b_data_structures, act[a].given.method)

\* ------------------------------------------------------ claims of Part III
\* The keys of a Blueprint: data-structure names, and group -> resource ->
\* action ids, each in the order of its dict.
ResourceKeys(resources) ==
    [i \in 1..Len(resources) |-> <<resources[i][1], DictKeys(resources[i][2])>>]
GroupKeys(groups) ==
    [i \in 1..Len(groups) |-> <<groups[i][1], ResourceKeys(groups[i][2])>>]

\* a, then the elements of b that a does not hold, in b's order
UnionKeys(a, b) == a \o SelectSeq(b, LAMBDA k : k \notin Range(a))

\* union of two dicts of key sequences
UnionLeaves(a, b) ==
    LET keys == UnionKeys(DictKeys(a), DictKeys(b))
    IN  [i \in 1..Len(keys) |->
            <<keys[i],
              UnionKeys(IF DictHas(a, keys[i]) THEN DictGet(a, keys[i]) ELSE <<>>,
                        IF DictHas(b, keys[i]) THEN DictGet(b, keys[i]) ELSE <<>>)>>]

\* union of two dicts of dicts of key sequences
UnionGroupKeys(a, b) ==
    LET keys == UnionKeys(DictKeys(a), DictKeys(b))
    IN  [i \in 1..Len(keys) |->
            <<keys[i],
              UnionLeaves(IF DictHas(a, keys[i]) THEN DictGet(a, keys[i]) ELSE <<>>,
                          IF DictHas(b, keys[i]) THEN DictGet(b, keys[i]) ELSE <<>>)>>]

\* The (group, resource, action id) triples of a Blueprint
ActionKeys(bp) ==
    UNION { UNION { { <<bp.groups[i][1], bp.groups[i][2][j][1], bp.groups[i][2][j][2][k][1]>> :
                        k \in 1..Len(bp.groups[i][2][j][2]) } :
                    j \in 1..Len(bp.groups[i][2]) } :
            i \in 1..Len(bp.groups) }

ActionAt(bp, key) == DictGet(DictGet(DictGet(bp.groups, key[1]), key[2]), key[3])

\* The data-structure names that two Blueprints both hold
SharedNames(a, b) == Range(DictKeys(a.ds)) \cap Range(DictKeys(b.ds))

\* A step that is a call of merge, and the Blueprint it merged
MergeStep == m_count >= 1 /\ m_count' = m_count + 1
MergedOther == m_other'
MergeRaised == m_errs'[Len(m_errs')]

\* Every earlier call returned: the receiver is what parse and merge made.
NoEarlierError == \A i \in 1..Len(m_errs) : m_errs[i] = "none"

C15_Step ==
    (/\ MergeStep
     /\ NoEarlierError
     /\ SharedNames(m_self, MergedOther) = {}
     /\ ActionKeys(m_self) \cap ActionKeys(MergedOther) = {})
    => /\ MergeRaised = "none"
       /\ DictKeys(m_self'.ds) = UnionKeys(DictKeys(m_self.ds), DictKeys(MergedOther.ds))
       /\ GroupKeys(m_self'.groups)
              = UnionGroupKeys(GroupKeys(m_self.groups), GroupKeys(MergedOther.groups))

\* C15: a merge of Blueprints with disjoint data-structure names and no Action
\* of the same id under the same group and resource returns without an error,
\* and the receiver then holds the union of the data structures, groups,
\* resources and actions, its own first and the other's new ones after them.
C15_Original == [][C15_Step]_vars

C16_Step ==
    MergeStep =>
        /\ SharedNames(m_self, MergedOther) # {} =>
              /\ MergeRaised # "none"
              /\ \A name \in SharedNames(m_self, MergedOther) :
                    DictGet(m_self'.ds, name) = DictGet(m_self.ds, name)
        /\ ActionKeys(m_self) \cap ActionKeys(MergedOther) # {} =>
              /\ MergeRaised # "none"
              /\ \A key \in ActionKeys(m_self) \cap ActionKeys(MergedOther) :
                    /\ key \in ActionKeys(m_self')
                    /\ ActionAt(m_self', key).origin = ActionAt(m_self, key).origin
                    /\ ActionAt(m_self', key).copy = ActionAt(m_self, key).copy

\* C16: merge raises an error when a data-structure name is in both
\* Blueprints, and when a group and a resource of both hold an Action of the
\* same id; the receiver keeps its own objects under the colliding keys.
C16_Collisions == [][C16_Step]_vars

\* Both collisions were met: one merge stopped on a data-structure name,
\* another on an Action id.
C16_Witness ==
    /\ \E i \in 1..Len(m_errs) : m_errs[i] = "ValueError"
    /\ \E i \in 1..Len(m_errs) : m_errs[i] = "NotImplementedError"

\* ------------------------------------------------------- claims of Part IV
\* parse returned a Blueprint
Returned == p_pc = "sections" /\ dpc = "done"

\* C17: a document whose metadata has no FORMAT key is aborted, so every
\* Blueprint that parse returns has a metadata entry FORMAT and a format that
\* is not null.
C17_Original ==
    Returned => DictHas(p_metadata, FormatKey) /\ Format # NoTxt

\* C18: parse returns a Blueprint or raises BlueprintParseError; no exception
\* of another type escapes, at the head of the document or in its sections.
C18_Original ==
    /\ p_pc \in {"start", "sections", "APIBlueprintParseError"}
    /\ dpc \in {"parse", "more", "last", "done", "APIBlueprintParseError"}

\* ----------------------------------------------- claims of Part I, continued
\* The items of the list that were parsed, and the place of the n-th item
\* among them
ParsedItems == SelectSeq(items, LAMBDA item : item.kind # "Unknown")
Rank(n) == Cardinality({ j \in 1..n : items[j].kind # "Unknown" })

\* An object's identifier in the list without the skipped items
RankId(id) == IF id = NoId THEN NoId ELSE <<Rank(id[1]), id[2]>>
RankIds(ids) == [i \in 1..Len(ids) |-> RankId(ids[i])]
RankObject(o) ==
    [o EXCEPT !.attributes = RankId(@), !.responses = RankIds(@), !.request = RankId(@)]
RankHeap(h) ==
    [rid \in { RankId(id) : id \in DOMAIN h } |->
        RankObject(h[CHOOSE id \in DOMAIN h : RankId(id) = rid])]

\* The locals of the walk, in the identifiers of the list without the
\* skipped items
RankedWalk ==
    [heap |-> RankHeap(heap),
     current_requests |-> RankIds(current_requests),
     clear_requests |-> clear_requests,
     kw_requests |-> RankIds(kw_requests),
     kw_responses |-> RankIds(kw_responses),
     kw_attributes |-> RankId(kw_attributes)]

\* C19: an item that is skipped (unknown first word, or a format error of its
\* parser) adds nothing to the Action and leaves the pending Requests and the
\* clear flag alone: at every point of the walk the locals are what the walk
\* over the list without the skipped items gives, and so are the Action's
\* requests and responses at its end.
C19_Skipped ==
    LET clean == ParseItems(EmptyWalk, ParsedItems, 1)
        finished == FinishedWalk(clean)
    IN  IF apc = "walk"
        THEN RankedWalk = clean
        ELSE /\ RankHeap(heap) = finished.heap
             /\ [i \in 1..Len(act_requests) |->
                    <<act_requests[i][1], RankId(act_requests[i][2])>>]
                    = finished.requests
             /\ [i \in 1..Len(act_responses) |->
                    <<act_responses[i][1], RankIds(act_responses[i][2])>>]
                    = finished.responses

\* An item was skipped between a pending Request and the Response that is
\* linked to it, and the Action was built.
C19_Witness ==
    /\ apc = "done"
    /\ \E i, j, k \in 1..Len(items) :
          /\ i < j /\ j < k
          /\ items[i].kind = "Request"
          /\ items[j].kind = "Unknown"
          /\ items[k].kind = "Response"
          /\ SectionId(k) \in Range(heap[SectionId(i)].responses)

\* --------------------------------------------- claims of Part II, continued
\* The Resource made of the heading just parsed
WindowResource == res'[npos']

C20_Step ==
    \A top \in BOOLEAN, given \in ImplicitDefs, sections \in ImplicitSections :
        ParseResourceHeading(top, given, sections, TRUE) =>
            /\ npos' \in DOMAIN res'
            /\ LET resources == grp'[WindowResource.group].resources
               IN  Cardinality({ i \in 1..Len(resources) : resources[i][2] = npos' }) = 1
            /\ WindowResource.method = given.method
            /\ WindowResource.template = UriTemplateOf(given.template)
            /\ Len(WindowResource.actions) = 1
            /\ LET a == act'[WindowResource.actions[1][2]]
               IN  /\ a.resource = npos'
                   /\ a.name = WindowResource.name
                   /\ a.method = WindowResource.method
                   /\ a.template = WindowResource.template
                   /\ Len(a.payloads) = Len(sections.payloads)
                   /\ \A i \in 1..Len(a.payloads) :
                         /\ a.payloads[i].kind = sections.payloads[i].kind
                         /\ a.payloads[i].own = sections.payloads[i].own

HeadingTags == { <<"h", ToString(n)>> : n \in 1..6 }
LevelOf(tag) == CHOOSE n \in 1..6 : tag = <<"h", ToString(n)>>

\* The index of the first `Data Structures` <h1> of the root, or one past
\* its last child
FirstDataStructures(children) ==
    LET at == { i \in 1..Len(children) :
                  children[i].tag = H1Tag /\ children[i].text = DataStructuresTitle }
    IN  IF at = {} THEN Len(children) + 1
        ELSE CHOOSE i \in at : \A j \in at : i <= j

\* The root has exactly one <h1> that is not `Data Structures`
SingleTitle(children) ==
    Cardinality({ i \in 1..Len(children) :
                    children[i].tag = H1Tag /\ children[i].text # DataStructuresTitle }) = 1

\* C21: with exactly one <h1> other than `Data Structures` in the root, each
\* root heading of level 2 or more before the first `Data Structures` <h1>
\* goes up one level and every other tag stays; with another count no tag
\* changes; no heading goes below level 1.
C21_HeadingLift ==
    q_fn = "TitleLifter.done" =>
        /\ Len(q_out.children) = Len(q_in.children)
        /\ \A i \in 1..Len(q_in.children) :
              LET old == q_in.children[i].tag
                  new == q_out.children[i].tag
              IN  /\ IF /\ SingleTitle(q_in.children)
                        /\ i < FirstDataStructures(q_in.children)
                        /\ old \in HeadingTags
                        /\ LevelOf(old) >= 2
                     THEN new = <<"h", ToString(LevelOf(old) - 1)>>
                     ELSE new = old
                  /\ (Len(new) = 2 /\ new[1] = "h" /\ IsDigit(new[2])) => new \in HeadingTags

\* A root with one title, a heading that went up one level, and the
\* `Data Structures` heading after it.
C21_Witness ==
    /\ q_fn = "TitleLifter.done"
    /\ SingleTitle(q_in.children)
    /\ \E i, j \in 1..Len(q_in.children) :
          /\ i < j
          /\ q_in.children[i].tag = <<"h", "3">>
          /\ q_out.children[i].tag = <<"h", "2">>
          /\ j = FirstDataStructures(q_in.children)

\* The paths of the elements below the root, for trees of depth two
PathsBelow(root) ==
    { <<i>> : i \in 1..Len(root.children) }
    \cup UNION { { <<i, j>> : j \in 1..Len(root.children[i].children) } :
                 i \in 1..Len(root.children) }

\* C22: after the run every element other than the root whose text was "\n"
\* and whose first child was a <p> has that child's text, and the child is
\* gone, wherever the element stands in the tree.
C22_Original ==
    q_fn = "TitleLifter.done" =>
        \A path \in PathsBelow(q_in) :
            LET old == NodeAt(q_in, path)
            IN  (old.text = NL /\ Len(old.children) > 0 /\ old.children[1].tag = PTag) =>
                    /\ NodeAt(q_out, path).text = old.children[1].text
                    /\ NodeAt(q_out, path).children = Tail(old.children)

\* The word after the last comma of the `(type, ...)` suffix of a bullet
\* text, NoTxt when the text has no suffix or the suffix no comma
SuffixOf(text) ==
    IF RFind(text, ")") = 0 THEN NoTxt
    ELSE SubSeq(text, RFind(text, "(") + 1, RFind(text, ")") - 1)
LastWordOf(text) ==
    IF SuffixOf(text) = NoTxt \/ RFind(SuffixOf(text), ",") = 0 THEN NoTxt
    ELSE Strip(From(SuffixOf(text), RFind(SuffixOf(text), ",") + 1))

\* C24: required is true exactly when the word after the last comma of the
\* type suffix is `required`, false exactly when it is `optional`, and
\* unknown in every other case.
C24_Original ==
    (q_fn = "Attribute.parse_from_etree" /\ q_out.err = "none") =>
        q_out.required = RequiredOrUnknown(LastWordOf(q_in.text))

\* C30: Parameter.parse_from_etree gives the name, type, required, value and
\* description that Attribute.parse_from_etree gives for the same bullet.
C30_Original ==
    [][(q_fn = "Attribute.parse_from_etree"
        /\ q_fn' = "Parameter.parse_from_etree"
        /\ q_out.err = "none")
       => /\ q_out'.name = q_out.name
          /\ q_out'.type = q_out.type
          /\ q_out'.required = q_out.required
          /\ q_out'.value = q_out.value
          /\ q_out'.description = q_out.description]_vars

RECURSIVE ExpectedHeaders(_, _)
\* One entry for each line that is not empty, split at its first colon and
\* trimmed, in the order of the lines
ExpectedHeaders(lines, d) ==
    IF lines = <<>> THEN d
    ELSE IF Head(lines) = <<>> THEN ExpectedHeaders(Tail(lines), d)
    ELSE LET at == Find(Head(lines), COLON)
         IN  ExpectedHeaders(Tail(lines),
                 DictPut(d, Strip(SubSeq(Head(lines), 1, at - 1)),
                            Strip(From(Head(lines), at + 1))))

\* C25: every line `Name: Value` that is not empty gives the entry
\* Name -> Value, split at the first colon, in source order, also for a value
\* that holds a colon; and parsing the display string of the result gives
\* the same mapping back.
C25_Original ==
    /\ q_fn = "Headers.parse_from_etree" =>
          /\ q_out.err = "none"
          /\ q_out.headers = ExpectedHeaders(Split(q_in, NL), <<>>)
    /\ q_fn = "Headers.parse_from_etree(str)" =>
          /\ q_out.err = "none"
          /\ q_out.headers = q_in

\* The least multiple of 4 that is not below i when i is 0 or a multiple of
\* 4, and the least one above i otherwise
NextStop(i) == IF i % 4 = 0 THEN i ELSE CHOOSE m \in (i + 1)..(i + 4) : m % 4 = 0

\* C23: the aligner returns as many lines, in the same order; a line with i
\* leading spaces keeps them when i is 0 or a multiple of 4 and gets the
\* least multiple of 4 above i otherwise, the rest of the line unchanged; a
\* line of spaces alone raises nothing; a second run changes nothing.
C23_Original ==
    /\ q_fn = "IndentationAligner.run" =>
          /\ q_out.err = "none"
          /\ Len(q_out.lines) = Len(q_in.lines)
          /\ \A k \in 1..Len(q_in.lines) :
                LET i == LeadingSpaces(q_in.lines[k])
                IN  q_out.lines[k] = Blank(NextStop(i)) \o From(q_in.lines[k], i + 1)
    /\ q_fn = "IndentationAligner.run(run)" =>
          /\ q_out.err = "none"
          /\ q_out.lines = q_in.lines

\* The same statement for the aligner of mdparser.py alone
C23_Bounded ==
    q_in # <<>> /\ q_fn \in {"IndentationAligner.run", "IndentationAligner.run(run)"}
                /\ q_in.version = "mdparser.py"
        => C23_Original

\* `Response` alone and `Response (type/subtype)`: no status code is given
NoStatusCode == { <<"Response">>, <<"Response", SP>> \o MediaAB }

\* C26: a Response item without a status code is accepted and stored under
\* the HTTP code 200.
C26_Original ==
    q_fn = "Action.__init__" /\ q_in \in NoStatusCode =>
        /\ q_out.err = "none"
        /\ DictKeys(q_out.responses) = <<200>>

\* With a status code of digits the Response is stored under that code
C26_Coded ==
    q_fn = "Action.__init__" /\ q_in = <<"Response", SP, "4", "0", "4">> \o <<SP>> \o MediaAB =>
        /\ q_out.err = "none"
        /\ DictKeys(q_out.responses) = <<404>>

\* The section that holds a section of the Action: the payload for a
\* payload's own Attributes, the Action for everything else
HolderOf(id) ==
    IF id[2] = -1 /\ items[id[1]].kind = "Request" THEN SectionId(id[1]) ELSE ActionId

\* C28: after the parse the parent of every section is the section that
\* holds it; the Attributes of the Action has the Action as parent also when
\* Requests inherited it.
C28_Original ==
    q_fn = "Action.parse_from_etree" =>
        \A id \in DOMAIN q_out : q_out[id] = HolderOf(id)

\* The same for every section but an inherited Attributes of the Action
C28_NotInherited ==
    q_fn = "Action.parse_from_etree" =>
        \A id \in DOMAIN q_out :
            \/ q_out[id] = HolderOf(id)
            \/ /\ id = kw_attributes
               /\ \E n \in 1..Len(items) : items[n].kind = "Request" /\ ~items[n].own

\* The Request items of the list
RequestItems == { n \in 1..Len(items) : items[n].kind = "Request" }

\* C29: indexing loses no payload: every parsed Request is a value of
\* action.requests, which has as many entries as the list has Request items,
\* and every Response linked to a Request q is a value of q.responses, also
\* with two Requests of one name and two Responses of one code linked to q.
C29_Original ==
    apc = "done" =>
        /\ \A i \in 1..Len(kw_requests) :
              kw_requests[i] \in Range(DictValues(act_requests))
        /\ Len(act_requests) = Cardinality(RequestItems)
        /\ \A q \in Range(kw_requests) :
              \A r \in Range(heap[q].responses) :
                  r \in Range(DictValues(RequestResponses(heap, q)))

\* Requests of different names, and Responses of different codes for each
\* Request, are all kept
C29_Distinct ==
    apc = "done"
    /\ (\A m, n \in RequestItems :
           m # n => items[m].name # items[n].name \/ items[m].name = NoneStr)
    /\ (\A q \in Range(kw_requests) : \A i, j \in 1..Len(heap[q].responses) :
           i # j => heap[heap[q].responses[i]].name # heap[heap[q].responses[j]].name)
    => C29_Original

\* C27: a call of merge that raises leaves the receiver as it was before the
\* call: its overview, data structures, groups, resources and actions.
C27_Step == MergeStep /\ MergeRaised # "none" => m_self' = m_self

C27_Original == [][C27_Step]_vars

====
